---- MODULE Spec2Model ----
(***************************************************************************)
(* Model of the Rojo project classifier and the path consolidator of       *)
(* pendant (src/src/functions/smart-initialize-async.ts and                *)
(* src/src/utilities/rojo-project-utilities.ts).                           *)
(*                                                                         *)
(* A JavaScript string is modelled as the sequence of its characters (each *)
(* a one-character TLA+ string), so that String.length, startsWith, split  *)
(* and the /\/\*\*$/ replacement are computed as the code computes them.   *)
(***************************************************************************)
EXTENDS Integers, Sequences, FiniteSets, TLC

VARIABLES
    pc,              \* the step the run has reached
    paths,           \* consolidator: the list of globs handed to consolidatePaths
    consolidated,    \* consolidator: consolidatePaths(paths)
    reconsolidated,  \* consolidator: consolidatePaths(consolidated)
    tree,            \* classifier: project.tree, the root of the Rojo project tree
    configuration,   \* classifier: the entries of configuration.files, in order
    runtimeMap,      \* classifier: the RuntimeEntryMap, context -> entry references
    pathMap,         \* classifier: the RuntimePathMap, context -> paths
    ignoreFilter,    \* analyzeRojoProject: the optional ignore filter
    visits,          \* analyzeRojoProject: the calls of processEntry, in order
    runtimePaths,    \* analyzeRojoProject: the RuntimePathsMap it returns
    filterPatterns,  \* ignore filter: the patterns array of the instance
    ignoresCalls,    \* ignore filter: the calls of ignores on the instance, in order
    projectOnDisk,   \* watch mode: the tree of the project file as it is on disk
    sourcesOnDisk,   \* watch mode: the state of the watched source directory
    analysisOptions, \* watch mode: the AnalysisOptions the handler built
    runs,            \* watch mode: the calls of runAnalysisAsync, in order of their start
    fileEvents,      \* watch mode: the events of the watcher so far
    problemsFile,    \* watch mode: the content of the problems file
    lastProblematicContent, \* watch mode: the field of the coordinator
    filterCall,      \* path filter: the arguments of filterPathsWithIgnorePatterns
    filtered,        \* path filter: the RuntimePathMap it returns
    rawOutput,       \* parser: the output of the analyzer
    issues,          \* parser: the issues parseLuauLspOutput returns
    subprocess,      \* runner: what Bun.spawn and the process do
    analysisResult,  \* runner: how executeAnalysisAsync settles
    searchDirectory, \* configuration: the files of the directory searched
    reads,           \* configuration: the reads of the candidates
    found            \* configuration: how getFirstConfigurationAsync settles

vars ==
    << pc, paths, consolidated, reconsolidated, tree, configuration, runtimeMap, pathMap,
       ignoreFilter, visits, runtimePaths,
       filterPatterns, ignoresCalls,
       projectOnDisk, sourcesOnDisk, analysisOptions, runs, fileEvents, problemsFile, lastProblematicContent,
       filterCall, filtered, rawOutput, issues, subprocess, analysisResult, searchDirectory, reads, found >>

(***************************************************************************)
(* Bounds of the model.                                                    *)
(***************************************************************************)
\* longest list of globs handed to consolidatePaths
MaxPaths == 3
\* most nodes (top-level entries and their descendants) of a classified tree
MaxEntries == 2
\* most nodes (top-level entries and their descendants) of an analyzed tree
MaxNodes == 3
\* most patterns held by an ignore filter
MaxPatterns == 2
\* most calls of ignores on an ignore filter
MaxCalls == 2
\* most events of the watcher
MaxEvents == 2

(***************************************************************************)
(* Strings.                                                                *)
(***************************************************************************)
Range(s) == {s[i] : i \in 1..Len(s)}

\* String.prototype.startsWith
StartsWith(s, prefix) ==
    /\ Len(prefix) =< Len(s)
    /\ SubSeq(s, 1, Len(prefix)) = prefix

\* the "/**" that analyzeRojoProject appends to every $path
GlobSuffix == <<"/", "*", "*">>

\* path.replace(GLOB_SUFFIX_PATTERN, "") with GLOB_SUFFIX_PATTERN = /\/\*\*$/
StripGlobSuffix(path) ==
    IF Len(path) >= Len(GlobSuffix)
       /\ SubSeq(path, Len(path) - Len(GlobSuffix) + 1, Len(path)) = GlobSuffix
    THEN SubSeq(path, 1, Len(path) - Len(GlobSuffix))
    ELSE path

\* String.prototype.split("/"): the segments between the separators
RECURSIVE SplitFrom(_, _, _)
SplitFrom(s, i, current) ==
    IF i > Len(s) THEN <<current>>
    ELSE IF s[i] = "/" THEN <<current>> \o SplitFrom(s, i + 1, <<>>)
    ELSE SplitFrom(s, i + 1, Append(current, s[i]))

Split(s) == SplitFrom(s, 1, <<>>)

\* `${a}/${b}`
Slash(a, b) == a \o <<"/">> \o b

\* `${entry.$path}/**`
Glob(directory) == directory \o GlobSuffix

(***************************************************************************)
(* Directory names the inputs are drawn from.                              *)
(***************************************************************************)
Vendor  == <<"V", "e", "n", "d", "o", "r">>
Vendors == <<"V", "e", "n", "d", "o", "r", "s">>
SegS  == <<"S">>
SegT  == <<"T">>
SegA  == <<"a">>
SegB  == <<"b">>
SegAB == <<"a", "b">>
SegCD == <<"c", "d">>

Directories ==
    { Vendor,
      Slash(Vendor, SegS),
      Slash(Slash(Vendor, SegS), SegAB),
      Slash(Slash(Vendor, SegS), SegCD),
      Slash(Slash(Vendor, SegT), SegA),
      Vendors,
      SegA,
      Slash(SegA, SegB),
      SegAB }

Globs == {Glob(d) : d \in Directories}

RECURSIVE SeqsUpTo(_, _)
SeqsUpTo(S, n) ==
    IF n = 0 THEN {<<>>}
    ELSE LET shorter == SeqsUpTo(S, n - 1)
         IN  shorter \cup {Append(s, x) : s \in {t \in shorter : Len(t) = n - 1}, x \in S}

(***************************************************************************)
(* consolidatePaths, smart-initialize-async.ts:116-140                     *)
(***************************************************************************)
RECURSIVE MaxLength(_)
MaxLength(list) ==
    IF list = <<>> THEN 0
    ELSE LET rest == MaxLength(Tail(list))
         IN  IF Len(Head(list)) > rest THEN Len(Head(list)) ELSE rest

\* [...paths].sort((a, b) => a.length - b.length): a stable sort by length
RECURSIVE SortFrom(_, _, _)
SortFrom(list, length, longest) ==
    IF length > longest THEN <<>>
    ELSE SelectSeq(list, LAMBDA p : Len(p) = length) \o SortFrom(list, length + 1, longest)

\* the list left in the order it was given
LeftUnsorted(list) == list

SortByLength(list) == SortFrom(list, 0, MaxLength(list))

\* the callback of consolidated.some(...), lines 126-133
IsCoveredBy(currentPath, existingPath) ==
    LET existingBase == StripGlobSuffix(existingPath)
        currentBase  == StripGlobSuffix(currentPath)
    IN  StartsWith(currentBase, existingBase \o <<"/">>) \/ currentBase = existingBase

IsRedundant(currentPath, accepted) ==
    \E i \in 1..Len(accepted) : IsCoveredBy(currentPath, accepted[i])

\* the loop of lines 124-136 over the sorted paths
RECURSIVE RemoveRedundant(_, _)
RemoveRedundant(sortedPaths, accepted) ==
    IF sortedPaths = <<>> THEN accepted
    ELSE RemoveRedundant(Tail(sortedPaths),
                         IF IsRedundant(Head(sortedPaths), accepted)
                         THEN accepted
                         ELSE Append(accepted, Head(sortedPaths)))

(***************************************************************************)
(* consolidateVendorPaths, smart-initialize-async.ts:149-186               *)
(***************************************************************************)
IsVendorPath(path) == StartsWith(path, Vendor \o <<"/">>)

PathParts(vendorPath) == Split(StripGlobSuffix(vendorPath))

\* lines 166-169: only a path with at least two parts joins a group
HasGroup(vendorPath) == Len(PathParts(vendorPath)) >= 2

GroupKey(vendorPath) == Slash(Vendor, PathParts(vendorPath)[2])

\* the keys of vendorGroups, in the Map's insertion order
RECURSIVE GroupKeys(_, _)
GroupKeys(vendorPaths, keys) ==
    IF vendorPaths = <<>> THEN keys
    ELSE LET p == Head(vendorPaths)
         IN  GroupKeys(Tail(vendorPaths),
                       IF HasGroup(p) /\ GroupKey(p) \notin Range(keys)
                       THEN Append(keys, GroupKey(p))
                       ELSE keys)

GroupPaths(vendorPaths, groupKey) ==
    SelectSeq(vendorPaths, LAMBDA p : HasGroup(p) /\ GroupKey(p) = groupKey)

\* a group's glob added in front of the paths of the group
KeepGroupPaths(groupKey, groupPaths) ==
    IF Len(groupPaths) > 1 THEN <<Glob(groupKey)>> \o groupPaths ELSE groupPaths

\* a group merged only from three paths on
ConsolidateFromThree(groupKey, groupPaths) ==
    IF Len(groupPaths) > 2 THEN <<Glob(groupKey)>> ELSE groupPaths

\* a group merged into the glob of the grouping root
WidenToRoot(groupKey, groupPaths) ==
    IF Len(groupPaths) > 1 THEN <<Glob(Vendor)>> ELSE groupPaths

\* lines 181-182
ConsolidateGroup(groupKey, groupPaths) ==
    IF Len(groupPaths) > 1 THEN <<Glob(groupKey)>> ELSE groupPaths

RECURSIVE ConsolidateGroups(_, _)
ConsolidateGroups(vendorPaths, keys) ==
    IF keys = <<>> THEN <<>>
    ELSE ConsolidateGroup(Head(keys), GroupPaths(vendorPaths, Head(keys)))
         \o ConsolidateGroups(vendorPaths, Tail(keys))

consolidateVendorPaths(list) ==
    LET vendorPaths == SelectSeq(list, IsVendorPath)
        otherPaths  == SelectSeq(list, LAMBDA p : ~IsVendorPath(p))
    IN  otherPaths \o ConsolidateGroups(vendorPaths, GroupKeys(vendorPaths, <<>>))

consolidatePaths(list) ==
    IF Len(list) =< 1 THEN list
    ELSE consolidateVendorPaths(RemoveRedundant(SortByLength(list), <<>>))

(***************************************************************************)
(* JavaScript values.  undefined is the value of a missing property; an    *)
(* absent or empty string property ($className, $path) is the empty        *)
(* string, which the code's truthiness tests treat alike.                  *)
(***************************************************************************)
Undefined == "undefined"
Absent == <<>>

\* the property names every plain object inherits from Object.prototype:
\* `key in object` is true for them although they are no own properties
ObjectPrototypeKeys ==
    { <<"c", "o", "n", "s", "t", "r", "u", "c", "t", "o", "r">>,
      <<"t", "o", "S", "t", "r", "i", "n", "g">>,
      <<"v", "a", "l", "u", "e", "O", "f">>,
      <<"h", "a", "s", "O", "w", "n", "P", "r", "o", "p", "e", "r", "t", "y">>,
      <<"i", "s", "P", "r", "o", "t", "o", "t", "y", "p", "e", "O", "f">>,
      <<"t", "o", "L", "o", "c", "a", "l", "e", "S", "t", "r", "i", "n", "g">>,
      <<"_", "_", "p", "r", "o", "t", "o", "_", "_">> }

(***************************************************************************)
(* RuntimeContext and RuntimeContextMeta, unnamed/part_005:14-45           *)
(***************************************************************************)
\* the members of the RuntimeContext enumeration, in declaration order
RuntimeContexts == <<"Client", "Server", "Shared", "Testing", "Unknown">>

\* RuntimeContextMeta[context].keyName
KeyName(context) ==
    CASE context = "Client"  -> "client"
      [] context = "Server"  -> "server"
      [] context = "Shared"  -> "shared"
      [] context = "Testing" -> "testing"
      [] context = "Unknown" -> "shared"

\* the last context whose keyName is key, as a reverse lookup table built
\* from the metadata would give it
LastContextOfKey(key) ==
    LET matching == {i \in 1..Len(RuntimeContexts) : KeyName(RuntimeContexts[i]) = key}
    IN  IF matching = {} THEN Undefined
        ELSE RuntimeContexts[CHOOSE i \in matching : \A j \in matching : i >= j]

\* rojo-project-utilities.ts:126-130: the first context whose keyName is key
getRuntimeContextFromKey(key) ==
    LET matching == {i \in 1..Len(RuntimeContexts) : KeyName(RuntimeContexts[i]) = key}
    IN  IF matching = {} THEN Undefined
        ELSE RuntimeContexts[CHOOSE i \in matching : \A j \in matching : i =< j]

\* rojo-project-utilities.ts:118-120: key in RuntimeContextMeta
isRuntimeContext(key) == key \in Range(RuntimeContexts)

(***************************************************************************)
(* RobloxServiceMeta, roblox-service-meta.ts:21-39                         *)
(***************************************************************************)
Chat                == <<"C", "h", "a", "t">>
HapticService       == <<"H", "a", "p", "t", "i", "c", "S", "e", "r", "v", "i", "c", "e">>
Lighting            == <<"L", "i", "g", "h", "t", "i", "n", "g">>
LocalizationService == <<"L", "o", "c", "a", "l", "i", "z", "a", "t", "i", "o", "n", "S", "e", "r", "v", "i", "c", "e">>
Players             == <<"P", "l", "a", "y", "e", "r", "s">>
ReplicatedFirst     == <<"R", "e", "p", "l", "i", "c", "a", "t", "e", "d", "F", "i", "r", "s", "t">>
ReplicatedStorage   == <<"R", "e", "p", "l", "i", "c", "a", "t", "e", "d", "S", "t", "o", "r", "a", "g", "e">>
RunService          == <<"R", "u", "n", "S", "e", "r", "v", "i", "c", "e">>
ServerScriptService == <<"S", "e", "r", "v", "e", "r", "S", "c", "r", "i", "p", "t", "S", "e", "r", "v", "i", "c", "e">>
ServerStorage       == <<"S", "e", "r", "v", "e", "r", "S", "t", "o", "r", "a", "g", "e">>
SoundService        == <<"S", "o", "u", "n", "d", "S", "e", "r", "v", "i", "c", "e">>
StarterGui          == <<"S", "t", "a", "r", "t", "e", "r", "G", "u", "i">>
StarterPack         == <<"S", "t", "a", "r", "t", "e", "r", "P", "a", "c", "k">>
StarterPlayer       == <<"S", "t", "a", "r", "t", "e", "r", "P", "l", "a", "y", "e", "r">>
TestService         == <<"T", "e", "s", "t", "S", "e", "r", "v", "i", "c", "e">>
TextChatService     == <<"T", "e", "x", "t", "C", "h", "a", "t", "S", "e", "r", "v", "i", "c", "e">>
Workspace           == <<"W", "o", "r", "k", "s", "p", "a", "c", "e">>

ClientServices == {ReplicatedFirst, StarterGui}
ServerServices == {ServerScriptService, ServerStorage}
TestingServices == {TestService}
SharedServices ==
    { Chat, HapticService, Lighting, LocalizationService, Players, ReplicatedStorage,
      RunService, SoundService, StarterPack, StarterPlayer, TextChatService, Workspace }

RobloxServices == ClientServices \cup ServerServices \cup SharedServices \cup TestingServices

\* key in RobloxServiceMeta: the `in` operator also finds inherited properties
InRobloxServiceMeta(key) == key \in RobloxServices \/ key \in ObjectPrototypeKeys

\* RobloxServiceMeta[key].runtimeContext, for a key that is in RobloxServiceMeta
ServiceRuntimeContext(key) ==
    IF key \in ClientServices THEN "Client"
    ELSE IF key \in ServerServices THEN "Server"
    ELSE IF key \in SharedServices THEN "Shared"
    ELSE IF key \in TestingServices THEN "Testing"
    ELSE Undefined

\* rojo-project-utilities.ts:115-117
isRobloxService(key) == InRobloxServiceMeta(key)

(***************************************************************************)
(* RojoTreeEntry, rojo-project-utilities.ts:13-39.  An entry is a record   *)
(*   kind       the JavaScript type of the value ("object" for an entry)   *)
(*   className  its $className (Absent when it has none)                   *)
(*   path       its $path (Absent when it has none)                        *)
(*   children   its other properties, in Object.entries order, each a      *)
(*              record [key, entry]                                        *)
(***************************************************************************)
ReservedKeys ==
    { <<"$", "c", "l", "a", "s", "s", "N", "a", "m", "e">>, <<"$", "i", "g", "n", "o", "r", "e", "U", "n", "k", "n", "o", "w", "n", "I", "n", "s", "t", "a", "n", "c", "e", "s">>, <<"$", "p", "a", "t", "h">>, <<"$", "p", "r", "o", "p", "e", "r", "t", "i", "e", "s">> }

NewEntry(className, path, children) ==
    [kind |-> "object", className |-> className, path |-> path, children |-> children]

\* a value that is not an entry: a function, a string, ...
NonEntry(kind) ==
    [kind |-> kind, className |-> Absent, path |-> Absent, children |-> <<>>]

\* every value taken for an entry
AnyValueIsEntry(entry, key) == TRUE

\* rojo-project-utilities.ts:104-114
isRojoTreeEntry(entry, key) ==
    /\ key \notin ReservedKeys
    /\ entry.kind = "object"

HasChild(entry, key) == \E i \in 1..Len(entry.children) : entry.children[i].key = key

\* key in entry
KeyIn(entry, key) ==
    \/ HasChild(entry, key)
    \/ key = <<"$", "c", "l", "a", "s", "s", "N", "a", "m", "e">> /\ entry.className # Absent
    \/ key = <<"$", "p", "a", "t", "h">> /\ entry.path # Absent
    \/ key \in ObjectPrototypeKeys

\* entry[key]
Get(entry, key) ==
    IF HasChild(entry, key)
    THEN entry.children[CHOOSE i \in 1..Len(entry.children) : entry.children[i].key = key].entry
    ELSE IF key = <<"$", "c", "l", "a", "s", "s", "N", "a", "m", "e">> \/ key = <<"$", "p", "a", "t", "h">> THEN NonEntry("string")
    ELSE IF key = <<"_", "_", "p", "r", "o", "t", "o", "_", "_">> THEN NewEntry(Absent, Absent, <<>>)
    ELSE IF key \in ObjectPrototypeKeys THEN NonEntry("function")
    ELSE NonEntry("undefined")

(***************************************************************************)
(* collectIntoRuntimeMap, rojo-project-utilities.ts:155-199.  A reference  *)
(* to the top-level entry tree[key] is modelled by its key: the keys of an *)
(* object are unique, so two references are the same entry exactly when    *)
(* the keys are equal.                                                     *)
(***************************************************************************)
EmptyRuntimeMap == [context \in Range(RuntimeContexts) |-> <<>>]

\* lines 156-163
NoneClassified == [map |-> EmptyRuntimeMap, configuredServices |-> {}, threw |-> FALSE]

\* runtimeMap[runtimeContext].push(entry)
Push(state, runtimeContext, reference) ==
    [state EXCEPT !.map[runtimeContext] = Append(@, reference)]

\* lines 175-179 without line 180: the key is recorded, the className is not
ClaimKeyOnly(root, runtimeContext, serviceName, state) ==
    IF KeyIn(root, serviceName) /\ isRojoTreeEntry(Get(root, serviceName), serviceName)
    THEN LET pushed == Push(state, runtimeContext, serviceName)
         IN  [pushed EXCEPT !.configuredServices = @ \cup {serviceName}]
    ELSE state

\* lines 175-181
ClassifyServiceName(root, runtimeContext, serviceName, state) ==
    IF KeyIn(root, serviceName) /\ isRojoTreeEntry(Get(root, serviceName), serviceName)
    THEN LET entry  == Get(root, serviceName)
             pushed == Push(state, runtimeContext, serviceName)
         IN  [pushed EXCEPT !.configuredServices =
                  @ \cup {serviceName}
                    \cup (IF entry.className # Absent THEN {entry.className} ELSE {})]
    ELSE state

\* line 174: for (const serviceName of serviceNames)
RECURSIVE ClassifyServiceNames(_, _, _, _)
ClassifyServiceNames(root, runtimeContext, serviceNames, state) ==
    IF serviceNames = <<>> THEN state
    ELSE ClassifyServiceNames(root, runtimeContext, Tail(serviceNames),
             ClassifyServiceName(root, runtimeContext, Head(serviceNames), state))

\* lines 166-182: the configuration-based classification
RECURSIVE ClassifyConfigured(_, _, _)
ClassifyConfigured(root, files, state) ==
    IF files = <<>> THEN state
    ELSE LET runtimeContext == getRuntimeContextFromKey(Head(files).context)
         IN  ClassifyConfigured(root, Tail(files),
                 IF runtimeContext = Undefined THEN state
                 ELSE ClassifyServiceNames(root, runtimeContext, Head(files).serviceNames, state))

\* every unconfigured entry that has a className listed under Unknown
FallbackToUnknown(key, value, state) ==
    IF ~isRojoTreeEntry(value, key) \/ key \in state.configuredServices THEN state
    ELSE IF value.className # Absent THEN Push(state, "Unknown", key) ELSE state

\* lines 186-195: one round of the fallback loop; runtimeMap[undefined].push
\* throws a TypeError
ClassifyFallbackEntry(key, value, state) ==
    IF ~isRojoTreeEntry(value, key) \/ key \in state.configuredServices THEN state
    ELSE LET className == value.className
         IN  IF \/ className = Absent
                \/ ~isRobloxService(className)
                \/ className \in state.configuredServices
             THEN IF className # Absent /\ className \notin state.configuredServices
                  THEN Push(state, "Unknown", key)
                  ELSE state
             ELSE IF ServiceRuntimeContext(className) = Undefined
                  THEN [state EXCEPT !.threw = TRUE]
                  ELSE Push(state, ServiceRuntimeContext(className), key)

\* lines 185-196: the fallback classification
RECURSIVE ClassifyFallback(_, _)
ClassifyFallback(children, state) ==
    IF children = <<>> \/ state.threw THEN state
    ELSE ClassifyFallback(Tail(children),
             ClassifyFallbackEntry(Head(children).key, Head(children).entry, state))

collectIntoRuntimeMap(root, files) ==
    ClassifyFallback(root.children, ClassifyConfigured(root, files, NoneClassified))

(***************************************************************************)
(* The consolidator applied to a list of globs, and then to its own output *)
(***************************************************************************)
ConsolidateInit ==
    /\ pc = "extracted"
    /\ paths \in SeqsUpTo(Globs, MaxPaths)
    /\ consolidated = <<>>
    /\ reconsolidated = <<>>
    /\ filterCall = <<>>
    /\ filtered = <<>>
    /\ rawOutput = <<>>
    /\ issues = <<>>
    /\ subprocess = <<>>
    /\ analysisResult = <<>>
    /\ searchDirectory = <<>>
    /\ reads = <<>>
    /\ found = <<>>
    /\ projectOnDisk = <<>>
    /\ sourcesOnDisk = <<>>
    /\ analysisOptions = <<>>
    /\ runs = <<>>
    /\ fileEvents = <<>>
    /\ problemsFile = <<>>
    /\ lastProblematicContent = <<>>
    /\ filterPatterns = <<>>
    /\ ignoresCalls = <<>>
    /\ tree = <<>>
    /\ configuration = <<>>
    /\ runtimeMap = <<>>
    /\ pathMap = <<>>
    /\ ignoreFilter = <<>>
    /\ visits = <<>>
    /\ runtimePaths = <<>>

Consolidate ==
    /\ pc = "extracted"
    /\ consolidated' = consolidatePaths(paths)
    /\ pc' = "consolidated"
    /\ UNCHANGED <<paths, reconsolidated, tree, configuration, runtimeMap, pathMap,
                 ignoreFilter, visits, runtimePaths, filterPatterns, ignoresCalls,
                   projectOnDisk, sourcesOnDisk, analysisOptions, runs, fileEvents,
                   problemsFile, lastProblematicContent,
                   filterCall, filtered, rawOutput, issues, subprocess, analysisResult, searchDirectory, reads, found>>

Reconsolidate ==
    /\ pc = "consolidated"
    /\ reconsolidated' = consolidatePaths(consolidated)
    /\ pc' = "reconsolidated"
    /\ UNCHANGED <<paths, consolidated, tree, configuration, runtimeMap, pathMap,
                 ignoreFilter, visits, runtimePaths, filterPatterns, ignoresCalls,
                   projectOnDisk, sourcesOnDisk, analysisOptions, runs, fileEvents,
                   problemsFile, lastProblematicContent,
                   filterCall, filtered, rawOutput, issues, subprocess, analysisResult, searchDirectory, reads, found>>

Init == ConsolidateInit

Next == Consolidate \/ Reconsolidate

Spec == Init /\ [][Next]_vars

(***************************************************************************)
(* extractPathsFromEntry, rojo-project-utilities.ts:294-305                *)
(***************************************************************************)
RECURSIVE extractPathsFromEntry(_)
RECURSIVE ExtractPathsFromChildren(_)

\* lines 299-302
ExtractPathsFromChildren(children) ==
    IF children = <<>> THEN <<>>
    ELSE (IF isRojoTreeEntry(Head(children).entry, Head(children).key)
          THEN extractPathsFromEntry(Head(children).entry)
          ELSE <<>>)
         \o ExtractPathsFromChildren(Tail(children))

\* the paths of the children put before the path of the node
ChildrenFirst(entry) ==
    ExtractPathsFromChildren(entry.children)
    \o (IF entry.path # Absent THEN <<entry.path>> ELSE <<>>)

extractPathsFromEntry(entry) ==
    (IF entry.path # Absent THEN <<entry.path>> ELSE <<>>)
    \o ExtractPathsFromChildren(entry.children)

(***************************************************************************)
(* collectFromConfigurationAsync, rojo-project-utilities.ts:215-292        *)
(***************************************************************************)
HasWildcard(pattern) == \E i \in 1..Len(pattern) : pattern[i] \in {"*", "?", "[", "{", "!"}

\* node:path matchesGlob(path, pattern), for a pattern that is either a
\* literal name or a directory followed by "/**".  Whether "d/**" also
\* matches the directory d itself differs between glob engines:
\* globstarMatchesSelf is that choice.
matchesGlob(path, pattern, globstarMatchesSelf) ==
    IF ~HasWildcard(pattern) THEN path = pattern
    ELSE /\ StripGlobSuffix(pattern) # pattern
         /\ ~HasWildcard(StripGlobSuffix(pattern))
         /\ \/ StartsWith(path, StripGlobSuffix(pattern) \o <<"/">>)
            \/ globstarMatchesSelf /\ path = StripGlobSuffix(pattern)

\* lines 201-205
pathMatchesPatternsGlob(path, patterns, globstarMatchesSelf) ==
    /\ Len(patterns) # 0
    /\ \E i \in 1..Len(patterns) : matchesGlob(path, patterns[i], globstarMatchesSelf)

\* Array.prototype.includes
Includes(list, x) == \E i \in 1..Len(list) : list[i] = x

\* lines 241-250: the first context whose patterns name the key or the
\* class name; a key that is no context key is skipped
RECURSIVE MatchByServiceName(_, _, _)
MatchByServiceName(files, key, className) ==
    IF files = <<>> THEN Undefined
    ELSE IF /\ getRuntimeContextFromKey(Head(files).context) # Undefined
            /\ \/ Includes(Head(files).serviceNames, key)
               \/ className # Absent /\ Includes(Head(files).serviceNames, className)
         THEN getRuntimeContextFromKey(Head(files).context)
         ELSE MatchByServiceName(Tail(files), key, className)

\* lines 255-265: the first context one of whose patterns matches the path
RECURSIVE MatchPath(_, _, _)
MatchPath(files, path, globstarMatchesSelf) ==
    IF files = <<>> THEN Undefined
    ELSE IF /\ getRuntimeContextFromKey(Head(files).context) # Undefined
            /\ pathMatchesPatternsGlob(path, Head(files).serviceNames, globstarMatchesSelf)
         THEN getRuntimeContextFromKey(Head(files).context)
         ELSE MatchPath(Tail(files), path, globstarMatchesSelf)

\* lines 254-267: the context of the first path that some pattern matches
RECURSIVE MatchByPaths(_, _, _)
MatchByPaths(files, allPaths, globstarMatchesSelf) ==
    IF allPaths = <<>> THEN Undefined
    ELSE IF MatchPath(files, Head(allPaths), globstarMatchesSelf) # Undefined
         THEN MatchPath(files, Head(allPaths), globstarMatchesSelf)
         ELSE MatchByPaths(files, Tail(allPaths), globstarMatchesSelf)

\* lines 234-274: one round of the configuration-based loop
MatchEntry(files, key, value, globstarMatchesSelf, state) ==
    IF ~isRojoTreeEntry(value, key) THEN state
    ELSE LET className == value.className
             byName    == MatchByServiceName(files, key, className)
             matchedContext ==
                 IF byName # Undefined THEN byName
                 ELSE MatchByPaths(files, extractPathsFromEntry(value), globstarMatchesSelf)
         IN  IF matchedContext = Undefined THEN state
             ELSE [Push(state, matchedContext, key) EXCEPT !.configuredServices =
                      @ \cup {key} \cup (IF className # Absent THEN {className} ELSE {})]

\* lines 233-275
RECURSIVE MatchEntries(_, _, _, _)
MatchEntries(files, children, globstarMatchesSelf, state) ==
    IF children = <<>> THEN state
    ELSE MatchEntries(files, Tail(children), globstarMatchesSelf,
             MatchEntry(files, Head(children).key, Head(children).entry,
                        globstarMatchesSelf, state))

\* lines 222-291, once getProjectFromFileAsync has returned the project;
\* the fallback loop of lines 278-289 is the one of collectIntoRuntimeMap
collectFromConfiguration(root, files, globstarMatchesSelf) ==
    ClassifyFallback(root.children,
                     MatchEntries(files, root.children, globstarMatchesSelf, NoneClassified))

(***************************************************************************)
(* collectPathsFromRuntimeMap, rojo-project-utilities.ts:313-333           *)
(***************************************************************************)
\* line 329: the paths of the entries of one context
RECURSIVE PathsOfEntries(_, _)
PathsOfEntries(root, references) ==
    IF references = <<>> THEN <<>>
    ELSE extractPathsFromEntry(Get(root, Head(references)))
         \o PathsOfEntries(root, Tail(references))

collectPathsFromRuntimeMap(root, map) ==
    [context \in Range(RuntimeContexts) |->
        IF isRuntimeContext(context) THEN PathsOfEntries(root, map[context]) ELSE <<>>]

(***************************************************************************)
(* The project trees and the configurations the classifier is run on.  A   *)
(* tree is drawn as an outline: its nodes in Object.entries order, each    *)
(* with its depth below the root.                                          *)
(***************************************************************************)
Tests              == <<"T", "e", "s", "t", "s">>
UnknownCustomClass == <<"U", "n", "k", "n", "o", "w", "n", "C", "u", "s", "t", "o", "m", "C", "l", "a", "s", "s">>
Constructor        == <<"c", "o", "n", "s", "t", "r", "u", "c", "t", "o", "r">>
DataModel          == <<"D", "a", "t", "a", "M", "o", "d", "e", "l">>

\* the $path of the i-th node of an outline, for a node that has one
NodeDirectories ==
    << SegA,
       Slash(SegA, SegB),
       Slash(Slash(Vendor, SegS), SegAB),
       Slash(Slash(Vendor, SegS), SegCD),
       Vendor >>

NodeDirectory(i) == NodeDirectories[((i - 1) % Len(NodeDirectories)) + 1]

\* the $path of the nodes that name one and the same directory
CommonDirectory == SegAB

\* the index of the parent of node i of an outline, 0 for a top-level node
ParentIndex(outline, i) ==
    IF outline[i].depth = 1 THEN 0
    ELSE CHOOSE p \in 1..(i - 1) :
             /\ outline[p].depth = outline[i].depth - 1
             /\ \A q \in (p + 1)..(i - 1) : outline[q].depth >= outline[i].depth

\* node may follow the outline: it is a top-level node or a child of one of
\* the open nodes, only an object has children, and no sibling has its key
MayFollow(outline, node) ==
    /\ node.depth =< (IF outline = <<>> THEN 1 ELSE outline[Len(outline)].depth + 1)
    /\ (outline # <<>> /\ node.depth = outline[Len(outline)].depth + 1)
           => outline[Len(outline)].kind = "object"
    /\ LET extended == Append(outline, node)
           n == Len(extended)
       IN  \A i \in 1..(n - 1) :
               (ParentIndex(extended, i) = ParentIndex(extended, n)
                /\ extended[i].depth = node.depth)
                   => extended[i].key # node.key

RECURSIVE Outlines(_, _)
Outlines(Nodes, n) ==
    IF n = 0 THEN {<<>>}
    ELSE LET shorter == Outlines(Nodes, n - 1)
         IN  shorter \cup
             UNION { {Append(o, node) : node \in {x \in Nodes : MayFollow(o, x)}} :
                     o \in {t \in shorter : Len(t) = n - 1} }

\* the index after the subtree of node i
RECURSIVE SubtreeEnd(_, _, _)
SubtreeEnd(outline, i, j) ==
    IF j > Len(outline) \/ outline[j].depth =< outline[i].depth THEN j
    ELSE SubtreeEnd(outline, i, j + 1)

\* the children at the given depth, from node i on
RECURSIVE ChildrenFrom(_, _, _)
ChildrenFrom(outline, i, depth) ==
    IF i > Len(outline) \/ outline[i].depth < depth THEN <<>>
    ELSE << [key   |-> outline[i].key,
             entry |-> IF outline[i].kind = "object"
                       THEN NewEntry(outline[i].className,
                                     IF ~outline[i].hasPath THEN Absent
                                     ELSE IF outline[i].samePath THEN CommonDirectory
                                     ELSE NodeDirectory(i),
                                     ChildrenFrom(outline, i + 1, depth + 1))
                       ELSE NonEntry(outline[i].kind)] >>
         \o ChildrenFrom(outline, SubtreeEnd(outline, i, i + 1), depth)

\* project.tree: the DataModel root over the outlined nodes
TreeOf(outline) == NewEntry(DataModel, <<".">>, ChildrenFrom(outline, 1, 1))

\* a RojoTreeEntry has a $className or a $path (lines 13-31); the values
\* that are no entries are a null, an array, and the object of $properties
Properties == <<"$", "p", "r", "o", "p", "e", "r", "t", "i", "e", "s">>

ClassifiedNodes ==
    { node \in [key : {TestService, Tests, Properties},
                className : {Absent, TestService, SoundService, UnknownCustomClass, Constructor},
                hasPath : BOOLEAN,
                samePath : BOOLEAN,
                kind : {"object", "null", "array"},
                depth : 1..MaxEntries] :
        /\ node.kind = "object" => node.className # Absent \/ node.hasPath
        /\ node.className \in {SoundService, UnknownCustomClass, Constructor} => ~node.hasPath
        /\ node.kind # "object" => node.className = Absent /\ ~node.hasPath
        /\ node.kind = "null" => node.key = Tests
        /\ node.kind = "array" => node.key = TestService
        /\ node.key = Properties => node.kind = "object" /\ node.className = Absent
        /\ node.samePath => node.hasPath /\ node.className = Absent /\ node.key # Properties }

\* the trees of at most n nodes drawn from Nodes
Trees(Nodes, n) == {TreeOf(outline) : outline \in Outlines(Nodes, n)}

\* configuration.files: its entries in the order of the configuration
\* schema (unnamed/part_009:345-366)
Files(client, server, shared, testing) ==
    << [context |-> "client",  serviceNames |-> client],
       [context |-> "server",  serviceNames |-> server],
       [context |-> "shared",  serviceNames |-> shared],
       [context |-> "testing", serviceNames |-> testing] >>

Configurations ==
    { Files(<<>>, <<>>, <<>>, <<>>),
      Files(<<>>, <<>>, <<TestService>>, <<>>),
      Files(<<>>, <<>>, <<Tests>>, <<>>),
      Files(<<Tests>>, <<>>, <<TestService>>, <<>>),
      Files(<<TestService>>, <<>>, <<TestService>>, <<>>),
      Files(<<>>, <<Tests, Tests>>, <<>>, <<>>),
      Files(<<>>, <<>>, <<>>, <<TestService, Tests>>),
      Files(<<>>, <<Glob(SegA)>>, <<>>, <<>>),
      Files(<<Slash(SegA, SegB)>>, <<>>, <<UnknownCustomClass>>, <<>>) }

(***************************************************************************)
(* The classifier run on a project tree and a configuration: either        *)
(* collectIntoRuntimeMap, or the analyze command's                         *)
(* collectFromConfigurationAsync followed by collectPathsFromRuntimeMap.   *)
(***************************************************************************)
ClassifyInit ==
    /\ pc = "loaded"
    /\ tree \in Trees(ClassifiedNodes, MaxEntries)
    /\ configuration \in Configurations
    /\ runtimeMap = EmptyRuntimeMap
    /\ pathMap = EmptyRuntimeMap
    /\ ignoreFilter = <<>>
    /\ visits = <<>>
    /\ runtimePaths = <<>>
    /\ paths = <<>>
    /\ consolidated = <<>>
    /\ reconsolidated = <<>>
    /\ filterCall = <<>>
    /\ filtered = <<>>
    /\ rawOutput = <<>>
    /\ issues = <<>>
    /\ subprocess = <<>>
    /\ analysisResult = <<>>
    /\ searchDirectory = <<>>
    /\ reads = <<>>
    /\ found = <<>>
    /\ projectOnDisk = <<>>
    /\ sourcesOnDisk = <<>>
    /\ analysisOptions = <<>>
    /\ runs = <<>>
    /\ fileEvents = <<>>
    /\ problemsFile = <<>>
    /\ lastProblematicContent = <<>>
    /\ filterPatterns = <<>>
    /\ ignoresCalls = <<>>

CollectIntoRuntimeMap ==
    /\ pc = "loaded"
    /\ LET result == collectIntoRuntimeMap(tree, configuration)
       IN  IF result.threw
           THEN pc' = "threw" /\ UNCHANGED runtimeMap
           ELSE pc' = "classified" /\ runtimeMap' = result.map
    /\ UNCHANGED <<paths, consolidated, reconsolidated, tree, configuration, pathMap,
                 ignoreFilter, visits, runtimePaths, filterPatterns, ignoresCalls,
                   projectOnDisk, sourcesOnDisk, analysisOptions, runs, fileEvents,
                   problemsFile, lastProblematicContent,
                   filterCall, filtered, rawOutput, issues, subprocess, analysisResult, searchDirectory, reads, found>>

\* getProjectFromFileAsync rejects when the project file is missing or is
\* no *.project.json (lines 93-102)
CollectFromConfigurationAsync ==
    /\ pc = "loaded"
    /\ \E projectLoads \in BOOLEAN, globstarMatchesSelf \in BOOLEAN :
           IF ~projectLoads
           THEN pc' = "rejected" /\ UNCHANGED runtimeMap
           ELSE LET result == collectFromConfiguration(tree, configuration, globstarMatchesSelf)
                IN  IF result.threw
                    THEN pc' = "rejected" /\ UNCHANGED runtimeMap
                    ELSE pc' = "collected" /\ runtimeMap' = result.map
    /\ UNCHANGED <<paths, consolidated, reconsolidated, tree, configuration, pathMap,
                 ignoreFilter, visits, runtimePaths, filterPatterns, ignoresCalls,
                   projectOnDisk, sourcesOnDisk, analysisOptions, runs, fileEvents,
                   problemsFile, lastProblematicContent,
                   filterCall, filtered, rawOutput, issues, subprocess, analysisResult, searchDirectory, reads, found>>

CollectPathsFromRuntimeMap ==
    /\ pc = "collected"
    /\ pathMap' = collectPathsFromRuntimeMap(tree, runtimeMap)
    /\ pc' = "listed"
    /\ UNCHANGED <<paths, consolidated, reconsolidated, tree, configuration, runtimeMap,
                 ignoreFilter, visits, runtimePaths, filterPatterns, ignoresCalls,
                   projectOnDisk, sourcesOnDisk, analysisOptions, runs, fileEvents,
                   problemsFile, lastProblematicContent,
                   filterCall, filtered, rawOutput, issues, subprocess, analysisResult, searchDirectory, reads, found>>

ClassifyNext ==
    \/ CollectIntoRuntimeMap
    \/ CollectFromConfigurationAsync
    \/ CollectPathsFromRuntimeMap

SpecClassify == ClassifyInit /\ [][ClassifyNext]_vars

(***************************************************************************)
(* createSimpleIgnoreFilter, gitignore-utilities.ts:42-80                  *)
(***************************************************************************)
\* String.prototype.replace(/from/g, to) for a literal from: the matches
\* are taken from left to right and do not overlap
RECURSIVE ReplaceAll(_, _, _)
ReplaceAll(s, from, to) ==
    IF s = <<>> THEN <<>>
    ELSE IF StartsWith(s, from)
         THEN to \o ReplaceAll(SubSeq(s, Len(from) + 1, Len(s)), from, to)
         ELSE <<Head(s)>> \o ReplaceAll(Tail(s), from, to)

\* replace(LEADING_SLASH_REGEX, ""), lines 32 and 59
RECURSIVE StripLeadingSlashes(_)
StripLeadingSlashes(s) ==
    IF s # <<>> /\ Head(s) = "/" THEN StripLeadingSlashes(Tail(s)) ELSE s

\* replace(RELATIVE_PATH_REGEX, ""), lines 31 and 57
StripRelativePrefix(s) ==
    IF StartsWith(s, <<".", ".", "/">>) THEN StripLeadingSlashes(SubSeq(s, 3, Len(s))) ELSE s

EndsWithSlash(s) == s # <<>> /\ s[Len(s)] = "/"

\* lines 69-72: the source text of the regular expression of a pattern
RegexPattern(normalizedPattern) ==
    ReplaceAll(ReplaceAll(ReplaceAll(normalizedPattern, <<"*", "*">>, <<".", "*">>),
                          <<"*">>, <<"[", "^", "/", "]", "*">>),
               <<"?">>, <<"[", "^", "/", "]">>)

\* new RegExp(...): the atoms of the expression, each "." (any character),
\* "[^/]" (any character but the separator) or a literal character, and
\* each possibly starred
RECURSIVE RegexAtoms(_)
RegexAtoms(source) ==
    IF source = <<>> THEN <<>>
    ELSE LET class  == StartsWith(source, <<"[", "^", "/", "]">>)
             width  == IF class THEN 4 ELSE 1
             kind   == IF class THEN "notSlash"
                       ELSE IF Head(source) = "." THEN "any" ELSE "literal"
             star   == Len(source) > width /\ source[width + 1] = "*"
             rest   == SubSeq(source, width + (IF star THEN 2 ELSE 1), Len(source))
         IN  <<[kind |-> kind, char |-> Head(source), star |-> star]>> \o RegexAtoms(rest)

AtomMatches(atom, char) ==
    CASE atom.kind = "any"      -> TRUE
      [] atom.kind = "notSlash" -> char # "/"
      [] atom.kind = "literal"  -> char = atom.char

\* regex.test(text) for the anchored expression ^atoms$
RECURSIVE RegexTest(_, _)
RegexTest(atoms, text) ==
    IF atoms = <<>> THEN text = <<>>
    ELSE IF Head(atoms).star
         THEN \/ RegexTest(Tail(atoms), text)
              \/ /\ text # <<>>
                 /\ AtomMatches(Head(atoms), Head(text))
                 /\ RegexTest(atoms, Tail(text))
         ELSE /\ text # <<>>
              /\ AtomMatches(Head(atoms), Head(text))
              /\ RegexTest(Tail(atoms), Tail(text))

\* lines 61-75 with a directory pattern that matches what lies in the
\* directory but not the directory itself
ContentsOnly(pattern, normalizedPath) ==
    LET normalizedPattern == StripLeadingSlashes(pattern)
    IN  IF EndsWithSlash(normalizedPattern)
        THEN StartsWith(normalizedPath, normalizedPattern)
        ELSE IF Includes(normalizedPattern, "*")
        THEN RegexTest(RegexAtoms(RegexPattern(normalizedPattern)), normalizedPath)
        ELSE \/ normalizedPath = normalizedPattern
             \/ StartsWith(normalizedPath, normalizedPattern \o <<"/">>)

\* lines 61-75: one pattern against the normalized path
PatternIgnores(pattern, normalizedPath) ==
    LET normalizedPattern == StripLeadingSlashes(pattern)
    IN  IF EndsWithSlash(normalizedPattern)
        THEN LET directoryPattern == SubSeq(normalizedPattern, 1, Len(normalizedPattern) - 1)
             IN  \/ normalizedPath = directoryPattern
                 \/ StartsWith(normalizedPath, directoryPattern \o <<"/">>)
        ELSE IF Includes(normalizedPattern, "*")
        THEN RegexTest(RegexAtoms(RegexPattern(normalizedPattern)), normalizedPath)
        ELSE \/ normalizedPath = normalizedPattern
             \/ StartsWith(normalizedPath, normalizedPattern \o <<"/">>)

\* lines 56-78
ignores(patterns, path) ==
    LET normalizedPath == StripLeadingSlashes(StripRelativePrefix(path))
    IN  \E i \in 1..Len(patterns) : PatternIgnores(patterns[i], normalizedPath)

(***************************************************************************)
(* A filter instance, gitignore-utilities.ts:42-80: the patterns array of  *)
(* the closure and the calls of ignores made on the instance so far.       *)
(***************************************************************************)
\* lines 27-29
isNotCommented(line) == line # <<>> /\ ~StartsWith(line, <<"#">>)

\* input.split("\n"), line 49
RECURSIVE SplitLinesFrom(_, _, _)
SplitLinesFrom(s, i, current) ==
    IF i > Len(s) THEN <<current>>
    ELSE IF s[i] = "\n" THEN <<current>> \o SplitLinesFrom(s, i + 1, <<>>)
    ELSE SplitLinesFrom(s, i + 1, Append(current, s[i]))

SplitLines(s) == SplitLinesFrom(s, 1, <<>>)

IsWhitespace(char) == char \in {" ", "\t", "\r", "\n"}

RECURSIVE TrimStart(_)
TrimStart(s) == IF s # <<>> /\ IsWhitespace(Head(s)) THEN TrimStart(Tail(s)) ELSE s

RECURSIVE TrimEnd(_)
TrimEnd(s) ==
    IF s # <<>> /\ IsWhitespace(s[Len(s)]) THEN TrimEnd(SubSeq(s, 1, Len(s) - 1)) ELSE s

\* trim of string-utilities, imported at line 3 and applied at line 49: it
\* removes the white space at both ends of a line
trim(s) == TrimEnd(TrimStart(s))

\* lines.map(trim).filter(isNotCommented), line 49
RECURSIVE TrimmedLines(_)
TrimmedLines(lines) ==
    IF lines = <<>> THEN <<>>
    ELSE LET line == trim(Head(lines))
         IN  (IF isNotCommented(line) THEN <<line>> ELSE <<>>) \o TrimmedLines(Tail(lines))

\* lines 47-52 with an add that starts the array anew
ReplacePatterns(patterns, input) ==
    IF input.kind = "string"
    THEN TrimmedLines(SplitLines(input.text))
    ELSE input.lines

\* add, lines 47-52: the patterns array after add(input); an input is a
\* string (the text of an ignore file) or an array of patterns
add(patterns, input) ==
    IF input.kind = "string"
    THEN patterns \o TrimmedLines(SplitLines(input.text))
    ELSE patterns \o input.lines

\* ignores reads the patterns array and writes nothing, lines 54-78
PatternsAfterIgnores(patterns, path) == patterns

IgnorePatterns ==
    { <<"a", "/", "*", "*">>, <<"*", ".", "t">>, <<"/", "a", "/">>,
      <<".", ".", "/", "a", "/">>, <<"/">> }

\* the text of an ignore file: a directory pattern, a comment, an empty
\* line and an indented wildcard pattern
IgnoreFile ==
    <<"a", "/", "\n", "#", "c", "\n", "\n", " ", "a", "?", "*", " ">>

AddInputs ==
    { [kind |-> "array", lines |-> <<pattern>>, text |-> <<>>] : pattern \in IgnorePatterns }
        \cup { [kind |-> "array", lines |-> <<>>, text |-> <<>>],
               [kind |-> "string", lines |-> <<>>, text |-> IgnoreFile] }

IgnoredPaths ==
    { <<"a">>, <<"a", "/", "b", "/", "c">>, <<"a", ".", "t">>,
      <<"a", "/", "t">>, <<".", ".", "/", "a", "/", "b">>, <<"/", "a">> }

IgnoreInit ==
    /\ pc = "filter"
    /\ paths = <<>>
    /\ consolidated = <<>>
    /\ reconsolidated = <<>>
    /\ filterCall = <<>>
    /\ filtered = <<>>
    /\ rawOutput = <<>>
    /\ issues = <<>>
    /\ subprocess = <<>>
    /\ analysisResult = <<>>
    /\ searchDirectory = <<>>
    /\ reads = <<>>
    /\ found = <<>>
    /\ projectOnDisk = <<>>
    /\ sourcesOnDisk = <<>>
    /\ analysisOptions = <<>>
    /\ runs = <<>>
    /\ fileEvents = <<>>
    /\ problemsFile = <<>>
    /\ lastProblematicContent = <<>>
    /\ filterPatterns = <<>>
    /\ ignoresCalls = <<>>
    /\ tree = <<>>
    /\ configuration = <<>>
    /\ runtimeMap = <<>>
    /\ pathMap = <<>>
    /\ ignoreFilter = <<>>
    /\ visits = <<>>
    /\ runtimePaths = <<>>

\* filter.add(input)
Add ==
    /\ pc = "filter"
    /\ \E input \in AddInputs :
         /\ Len(add(filterPatterns, input)) <= MaxPatterns
         /\ filterPatterns' = add(filterPatterns, input)
    /\ UNCHANGED <<pc, paths, consolidated, reconsolidated, tree, configuration, runtimeMap,
                   pathMap, ignoreFilter, visits, runtimePaths, ignoresCalls,
                   projectOnDisk, sourcesOnDisk, analysisOptions, runs, fileEvents,
                   problemsFile, lastProblematicContent,
                   filterCall, filtered, rawOutput, issues, subprocess, analysisResult, searchDirectory, reads, found>>

\* filter.ignores(path); the call is recorded with the number of patterns
\* the filter held when it was made
Ignores ==
    /\ pc = "filter"
    /\ Len(ignoresCalls) < MaxCalls
    /\ \E path \in IgnoredPaths :
         /\ ignoresCalls' = Append(ignoresCalls,
                                   [path |-> path,
                                    result |-> ignores(filterPatterns, path),
                                    size |-> Len(filterPatterns)])
         /\ filterPatterns' = PatternsAfterIgnores(filterPatterns, path)
    /\ UNCHANGED <<pc, paths, consolidated, reconsolidated, tree, configuration, runtimeMap,
                   pathMap, ignoreFilter, visits, runtimePaths,
                   projectOnDisk, sourcesOnDisk, analysisOptions, runs, fileEvents,
                   problemsFile, lastProblematicContent,
                   filterCall, filtered, rawOutput, issues, subprocess, analysisResult, searchDirectory, reads, found>>

IgnoreNext == Add \/ Ignores

SpecIgnore == IgnoreInit /\ [][IgnoreNext]_vars

(***************************************************************************)
(* analyzeRojoProject, smart-initialize-async.ts:196-310                   *)
(***************************************************************************)
\* lines 319-329
isIgnoredPath(path, patterns) ==
    LET basePath == StripGlobSuffix(path)
    IN  ignores(patterns, basePath) \/ ignores(patterns, basePath \o <<"/">>)

\* lines 212-223: the runtime context processEntry resolves for an entry
ResolveContext(entry, parentKey, inheritedContext) ==
    IF entry.className # Absent /\ InRobloxServiceMeta(entry.className)
    THEN ServiceRuntimeContext(entry.className)
    ELSE IF parentKey # Absent /\ InRobloxServiceMeta(parentKey)
    THEN ServiceRuntimeContext(parentKey)
    ELSE inheritedContext

\* an undetermined context kept out of the shared list
PathsKeyApart(runtimeContext) ==
    CASE runtimeContext = "Client"  -> "client"
      [] runtimeContext = "Server"  -> "server"
      [] runtimeContext = "Shared"  -> "shared"
      [] OTHER                      -> "testing"

\* lines 229-255: the list of the RuntimePathsMap a context's globs go to
PathsKey(runtimeContext) ==
    CASE runtimeContext = "Client"  -> "client"
      [] runtimeContext = "Server"  -> "server"
      [] runtimeContext = "Shared"  -> "shared"
      [] runtimeContext = "Testing" -> "testing"
      [] OTHER                      -> "shared"

PathsKeys == <<"client", "server", "shared", "testing">>

\* lines 211-273: the calls of processEntry for an entry and its
\* descendants, in the order they are made, each with the context resolved
RECURSIVE processEntry(_, _, _, _)
RECURSIVE ProcessChildren(_, _, _)

\* lines 259-272
ProcessChildren(children, runtimeContext, depth) ==
    IF children = <<>> THEN <<>>
    ELSE (IF isRojoTreeEntry(Head(children).entry, Head(children).key)
          THEN processEntry(Head(children).entry, Head(children).key, runtimeContext, depth)
          ELSE <<>>)
         \o ProcessChildren(Tail(children), runtimeContext, depth)

processEntry(entry, parentKey, inheritedContext, depth) ==
    LET runtimeContext == ResolveContext(entry, parentKey, inheritedContext)
    IN  << [key |-> parentKey, className |-> entry.className, path |-> entry.path,
            depth |-> depth, runtimeContext |-> runtimeContext] >>
        \o ProcessChildren(entry.children, runtimeContext, depth + 1)

\* lines 226-256: the globs pushed to one list of paths
RECURSIVE EmittedPaths(_, _)
EmittedPaths(calls, key) ==
    IF calls = <<>> THEN <<>>
    ELSE (IF Head(calls).path # Absent /\ PathsKey(Head(calls).runtimeContext) = key
          THEN <<Glob(Head(calls).path)>>
          ELSE <<>>)
         \o EmittedPaths(Tail(calls), key)

\* lines 304-308
RECURSIVE FilterIgnored(_, _)
FilterIgnored(list, patterns) ==
    IF list = <<>> THEN <<>>
    ELSE (IF isIgnoredPath(Head(list), patterns) THEN <<>> ELSE <<Head(list)>>)
         \o FilterIgnored(Tail(list), patterns)

\* lines 276-309
analyzeRojoProject(root, filter) ==
    LET calls == ProcessChildren(root.children, Undefined, 1)
    IN  [calls |-> calls,
         paths |-> [key \in Range(PathsKeys) |->
                       LET consolidatedPaths == consolidatePaths(EmittedPaths(calls, key))
                       IN  IF filter.given
                           THEN FilterIgnored(consolidatedPaths, filter.patterns)
                           ELSE consolidatedPaths]]

(***************************************************************************)
(* analyzeRojoProject run on a project tree, with or without a filter.     *)
(***************************************************************************)
Lib == <<"l", "i", "b">>

\* nodes named after a service, after nothing, and after a property every
\* object inherits
AnalyzedNodes ==
    { node \in [key : {ServerScriptService, Lib, Constructor},
                className : {Absent, ReplicatedStorage, UnknownCustomClass},
                hasPath : BOOLEAN,
                samePath : {FALSE},
                kind : {"object"},
                depth : 1..MaxNodes] :
        /\ node.className # Absent \/ node.hasPath
        /\ node.className = UnknownCustomClass => ~node.hasPath /\ node.key = Lib
        /\ node.className = ReplicatedStorage => node.hasPath
        /\ node.key = Constructor => node.className = Absent }

NoFilter == [given |-> FALSE, patterns |-> <<>>]
Filter(patterns) == [given |-> TRUE, patterns |-> patterns]

IgnoreFilters ==
    { NoFilter,
      Filter(<< >>),
      Filter(<< <<"/", "a", "/">> >>),
      Filter(<< <<"a", "/", "*">>, <<"V", "e", "n", "d", "o", "r">> >>),
      Filter(<< <<"a", "/", "b", "/">> >>) }

AnalyzeInit ==
    /\ pc = "parsed"
    /\ tree \in Trees(AnalyzedNodes, MaxNodes)
    /\ ignoreFilter \in IgnoreFilters
    /\ visits = <<>>
    /\ runtimePaths = [key \in Range(PathsKeys) |-> <<>>]
    /\ configuration = <<>>
    /\ runtimeMap = <<>>
    /\ pathMap = <<>>
    /\ paths = <<>>
    /\ consolidated = <<>>
    /\ reconsolidated = <<>>
    /\ filterCall = <<>>
    /\ filtered = <<>>
    /\ rawOutput = <<>>
    /\ issues = <<>>
    /\ subprocess = <<>>
    /\ analysisResult = <<>>
    /\ searchDirectory = <<>>
    /\ reads = <<>>
    /\ found = <<>>
    /\ projectOnDisk = <<>>
    /\ sourcesOnDisk = <<>>
    /\ analysisOptions = <<>>
    /\ runs = <<>>
    /\ fileEvents = <<>>
    /\ problemsFile = <<>>
    /\ lastProblematicContent = <<>>
    /\ filterPatterns = <<>>
    /\ ignoresCalls = <<>>

AnalyzeRojoProject ==
    /\ pc = "parsed"
    /\ LET result == analyzeRojoProject(tree, ignoreFilter)
       IN  /\ visits' = result.calls
           /\ runtimePaths' = result.paths
    /\ pc' = "analyzed"
    /\ UNCHANGED <<paths, consolidated, reconsolidated, tree, configuration, runtimeMap,
                   pathMap, ignoreFilter,
                   filterPatterns, ignoresCalls,
                   projectOnDisk, sourcesOnDisk, analysisOptions, runs, fileEvents,
                   problemsFile, lastProblematicContent,
                   filterCall, filtered, rawOutput, issues, subprocess, analysisResult, searchDirectory, reads, found>>

AnalyzeNext == AnalyzeRojoProject

SpecAnalyze == AnalyzeInit /\ [][AnalyzeNext]_vars

(***************************************************************************)
(* The analyze command in watch mode: analyzeCommand.handler               *)
(* (commands/analyze.ts:106-176) and AnalysisCoordinator                   *)
(* (core/luau-lsp-runner.ts:519-643).  The field lastPromise of the        *)
(* coordinator is never assigned a promise, so line 523 changes nothing    *)
(* and the field is left out.                                              *)
(***************************************************************************)
\* the index of the first element of list that is x, 0 when there is none
\* (Array.prototype.indexOf, shifted by one)
IndexOf(list, x) ==
    IF \E i \in 1..Len(list) : list[i] = x
    THEN CHOOSE i \in 1..Len(list) : list[i] = x /\ \A j \in 1..(i - 1) : list[j] # x
    ELSE 0

\* segments.join("/")
RECURSIVE Join(_)
Join(segments) ==
    IF segments = <<>> THEN <<>>
    ELSE IF Len(segments) = 1 THEN Head(segments)
    ELSE Head(segments) \o <<"/">> \o Join(Tail(segments))

\* relative(workingDirectory, path) of node:path, for a path of the project
\* tree that is written relative to the working directory and has no . or
\* .. segment
Relative(path) == path

\* analyze.ts:71-79: popped is the last segment of the working directory
RelativeFromProject(path, popped) ==
    LET pathSegments == Split(path)
        projectDirectoryIndex == IndexOf(pathSegments, popped)
    IN  IF projectDirectoryIndex >= 1 /\ projectDirectoryIndex < Len(pathSegments)
        THEN Join(SubSeq(pathSegments, projectDirectoryIndex + 1, Len(pathSegments)))
        ELSE Relative(path)

\* analyze.ts:66-88: whether the filter callback keeps the path;
\* isIgnoredPath of analyze.ts:32-42 is isIgnoredPath of
\* smart-initialize-async.ts word for word
KeepsPath(path, gitignore, ignoreGlobs, popped) ==
    /\ popped # <<>>
    /\ ~isIgnoredPath(Relative(path), gitignore)
    /\ ~isIgnoredPath(RelativeFromProject(path, popped), gitignore)
    /\ ~ignores(ignoreGlobs, Relative(path))
    /\ ~ignores(ignoreGlobs, RelativeFromProject(path, popped))

RECURSIVE FilterPathList(_, _, _, _)
FilterPathList(pathList, gitignore, ignoreGlobs, popped) ==
    IF pathList = <<>> THEN <<>>
    ELSE (IF KeepsPath(Head(pathList), gitignore, ignoreGlobs, popped)
          THEN <<Head(pathList)>> ELSE <<>>)
         \o FilterPathList(Tail(pathList), gitignore, ignoreGlobs, popped)

\* analyze.ts:53-92
filterPathsWithIgnorePatterns(pathsByContext, gitignore, ignoreGlobs, popped) ==
    [context \in DOMAIN pathsByContext |->
        FilterPathList(pathsByContext[context], gitignore, ignoreGlobs, popped)]

\* the name of the working directory, process.cwd().split("/").pop()
WorkingDirectoryName == <<"w">>

\* analyze.ts:129-136: the paths the handler computes from the project
\* file, the configuration and the .gitignore patterns
HandlerPaths(project, files, gitignore, globstarMatchesSelf) ==
    LET result == collectFromConfiguration(project, files, globstarMatchesSelf)
    IN  filterPathsWithIgnorePatterns(collectPathsFromRuntimeMap(project, result.map),
                                      gitignore, <<>>, WorkingDirectoryName)

\* luau-lsp-runner.ts:533-567: the content of the problems file, formatted
\* from what the analyzer reports for the contexts that have paths and the
\* sources it reads
AnalysisOf(pathsByContext, sources) ==
    [analyzed |-> {<<context, pathsByContext[context]>> :
                       context \in {c \in DOMAIN pathsByContext : pathsByContext[c] # <<>>}},
     sources  |-> sources]

\* no content: the problems file does not exist yet, the field
\* lastProblematicContent is undefined
NoContent == [analyzed |-> {}, sources |-> Undefined]

\* the project files, the configurations, the .gitignore patterns and the
\* states of the sources of a watched project
WatchedNodes ==
    { node \in ClassifiedNodes :
        /\ node.kind = "object"
        /\ node.depth = 1
        /\ node.key = TestService
        /\ node.className = TestService
        /\ node.hasPath /\ ~node.samePath }

WatchedProjects == Trees(WatchedNodes, 1)

WatchedConfigurations ==
    { Files(<<>>, <<>>, <<>>, <<>>), Files(<<>>, <<>>, <<TestService>>, <<>>) }

WatchedGitignores == { <<>>, <<<<"/", "a", "/">>>> }

SourceStates == {"clean", "faulty"}

WatcherEvents == {"add", "change", "unlink", "unlinkDir"}

InFlightStages == {"sourcemap", "analyzing", "writing"}

WatchInit ==
    /\ pc = "handler"
    /\ paths = <<>>
    /\ consolidated = <<>>
    /\ reconsolidated = <<>>
    /\ filterCall = <<>>
    /\ filtered = <<>>
    /\ rawOutput = <<>>
    /\ issues = <<>>
    /\ subprocess = <<>>
    /\ analysisResult = <<>>
    /\ searchDirectory = <<>>
    /\ reads = <<>>
    /\ found = <<>>
    /\ tree = <<>>
    /\ configuration \in WatchedConfigurations
    /\ runtimeMap = <<>>
    /\ pathMap = <<>>
    /\ ignoreFilter \in WatchedGitignores
    /\ visits = <<>>
    /\ runtimePaths = <<>>
    /\ filterPatterns = <<>>
    /\ ignoresCalls = <<>>
    /\ projectOnDisk \in WatchedProjects
    /\ sourcesOnDisk = "clean"
    /\ analysisOptions = [paths |-> Undefined]
    /\ runs = <<>>
    /\ fileEvents = [seen |-> 0, heard |-> 0, last |-> Undefined]
    /\ problemsFile = NoContent
    /\ lastProblematicContent = NoContent

\* runAnalysisAsync up to its first await (lines 519-528): the run waits
\* for the sourcemap.  The event that started it and the project file as it
\* was then are kept with the run.
StartedRun(event) ==
    [event |-> event, project |-> projectOnDisk, stage |-> "sourcemap",
     paths |-> Undefined, content |-> NoContent]

\* analyzeCommand.handler with the flag watch, up to the initial run of
\* startWatchModeAsync (analyze.ts:106-170, luau-lsp-runner.ts:595-613)
Handler ==
    /\ pc = "handler"
    /\ \E projectLoads \in BOOLEAN, globstarMatchesSelf \in BOOLEAN :
         IF ~projectLoads \/ collectFromConfiguration(projectOnDisk, configuration,
                                                      globstarMatchesSelf).threw
         THEN /\ pc' = "exited"
              /\ UNCHANGED <<analysisOptions, runs,
                   filterCall, filtered, rawOutput, issues, subprocess, analysisResult, searchDirectory, reads, found>>
         ELSE /\ pc' = "initial"
              /\ analysisOptions' =
                     [paths |-> HandlerPaths(projectOnDisk, configuration, ignoreFilter,
                                             globstarMatchesSelf)]
              /\ runs' = <<StartedRun(0)>>
    /\ UNCHANGED <<paths, consolidated, reconsolidated, tree, configuration, runtimeMap,
                   pathMap, ignoreFilter, visits, runtimePaths, filterPatterns,
                   ignoresCalls, projectOnDisk, sourcesOnDisk,
                   fileEvents, problemsFile, lastProblematicContent,
                   filterCall, filtered, rawOutput, issues, subprocess, analysisResult, searchDirectory, reads, found>>

\* the project file is edited; it lies outside the watched source directory
EditProject ==
    /\ pc \in {"initial", "watching"}
    /\ \E project \in WatchedProjects \ {projectOnDisk} : projectOnDisk' = project
    /\ UNCHANGED <<pc, paths, consolidated, reconsolidated, tree, configuration, runtimeMap,
                   pathMap, ignoreFilter, visits, runtimePaths, filterPatterns,
                   ignoresCalls, sourcesOnDisk, analysisOptions,
                   runs, fileEvents, problemsFile, lastProblematicContent,
                   filterCall, filtered, rawOutput, issues, subprocess, analysisResult, searchDirectory, reads, found>>

\* a file of the source directory is added, changed or removed.  The
\* listeners are registered after the initial run (lines 613-623): before
\* that the event has no listener, after that runAnalysis starts a run.
\* fileEvents counts the events seen and those heard by a listener, and
\* holds the kind of the last one.
FileEvent ==
    /\ pc \in {"initial", "watching"}
    /\ fileEvents.seen < MaxEvents
    /\ \E kind \in WatcherEvents, sources \in SourceStates :
         /\ sourcesOnDisk' = sources
         /\ fileEvents' = [seen  |-> fileEvents.seen + 1,
                           heard |-> fileEvents.heard + (IF pc = "watching" THEN 1 ELSE 0),
                           last  |-> kind]
         /\ runs' = IF pc = "watching"
                    THEN Append(runs, StartedRun(fileEvents.seen + 1))
                    ELSE runs
    /\ UNCHANGED <<pc, paths, consolidated, reconsolidated, tree, configuration, runtimeMap,
                   pathMap, ignoreFilter, visits, runtimePaths, filterPatterns,
                   ignoresCalls, projectOnDisk, analysisOptions,
                   problemsFile, lastProblematicContent,
                   filterCall, filtered, rawOutput, issues, subprocess, analysisResult, searchDirectory, reads, found>>

\* the position of the handler after run i has moved to the stage: the
\* initial run is awaited (line 613), then the listeners are registered
AfterRun(i, stage) ==
    IF i = 1 /\ stage \notin InFlightStages THEN "watching" ELSE pc

\* generateSourcemapAsync settles (lines 526-534): the run reads
\* options.paths and starts the analyzer for the contexts, or the rejection
\* is logged (lines 579-583 and 607-609)
SourcemapSettles ==
    /\ \E i \in 1..Len(runs), generated \in BOOLEAN :
         /\ runs[i].stage = "sourcemap"
         /\ LET stage == IF generated THEN "analyzing" ELSE "failed"
            IN  /\ runs' = [runs EXCEPT ![i].stage = stage,
                                        ![i].paths = IF generated THEN analysisOptions.paths
                                                     ELSE Undefined]
                /\ pc' = AfterRun(i, stage)
    /\ UNCHANGED <<paths, consolidated, reconsolidated, tree, configuration, runtimeMap,
                   pathMap, ignoreFilter, visits, runtimePaths, filterPatterns,
                   ignoresCalls, projectOnDisk, sourcesOnDisk,
                   analysisOptions, fileEvents, problemsFile, lastProblematicContent,
                   filterCall, filtered, rawOutput, issues, subprocess, analysisResult, searchDirectory, reads, found>>

\* Promise.all of the analyses settles (lines 563-573): the results are
\* formatted, and the problems file is written if its content differs from
\* the last content
AnalysesSettle ==
    /\ \E i \in 1..Len(runs) :
         /\ runs[i].stage = "analyzing"
         /\ LET problemsFileContent == AnalysisOf(runs[i].paths, sourcesOnDisk)
                stage == IF lastProblematicContent # problemsFileContent
                         THEN "writing" ELSE "done"
            IN  /\ runs' = [runs EXCEPT ![i].stage = stage,
                                        ![i].content = problemsFileContent]
                /\ lastProblematicContent' = problemsFileContent
                /\ pc' = AfterRun(i, stage)
    /\ UNCHANGED <<paths, consolidated, reconsolidated, tree, configuration, runtimeMap,
                   pathMap, ignoreFilter, visits, runtimePaths, filterPatterns,
                   ignoresCalls, projectOnDisk, sourcesOnDisk,
                   analysisOptions, fileEvents, problemsFile,
                   filterCall, filtered, rawOutput, issues, subprocess, analysisResult, searchDirectory, reads, found>>

\* Bun.write settles (lines 573-583): the file holds the content, or the
\* rejection is logged
WriteSettles ==
    /\ \E i \in 1..Len(runs), written \in BOOLEAN :
         /\ runs[i].stage = "writing"
         /\ LET stage == IF written THEN "done" ELSE "failed"
            IN  /\ runs' = [runs EXCEPT ![i].stage = stage]
                /\ problemsFile' = IF written THEN runs[i].content ELSE problemsFile
                /\ pc' = AfterRun(i, stage)
    /\ UNCHANGED <<paths, consolidated, reconsolidated, tree, configuration, runtimeMap,
                   pathMap, ignoreFilter, visits, runtimePaths, filterPatterns,
                   ignoresCalls, projectOnDisk, sourcesOnDisk,
                   analysisOptions, fileEvents, lastProblematicContent,
                   filterCall, filtered, rawOutput, issues, subprocess, analysisResult, searchDirectory, reads, found>>

WatchNext ==
    \/ Handler
    \/ EditProject
    \/ FileEvent
    \/ SourcemapSettles
    \/ AnalysesSettle
    \/ WriteSettles

SpecWatch == WatchInit /\ [][WatchNext]_vars

(***************************************************************************)
(* Properties of the consolidator.                                         *)
(***************************************************************************)
Base(glob) == StripGlobSuffix(glob)

\* base(inner) lies strictly below the directory base(outer)
LiesUnder(inner, outer) == StartsWith(Base(inner), Base(outer) \o <<"/">>)

\* every file matched by glob g is matched by glob h
Covers(h, g) == Base(h) = Base(g) \/ LiesUnder(g, h)

Consolidated == pc \in {"consolidated", "reconsolidated"}

\* C1: no-narrowing: every input glob is covered by some glob of the
\* output of consolidatePaths.
C1_NoNarrowing ==
    Consolidated =>
        \A g \in Range(paths) : \E h \in Range(consolidated) : Covers(h, g)

\* C2: prefix domination: whenever the input holds both A/** and A/B/**,
\* the output holds A/** and no glob whose base lies under A/.
C2_OnlyParentSurvives ==
    Consolidated =>
        \A a, b \in Range(paths) :
            LiesUnder(b, a) =>
                /\ a \in Range(consolidated)
                /\ \A h \in Range(consolidated) : ~LiesUnder(h, a)

\* C3 (as claimed): consolidating the output of consolidatePaths again
\* returns the same list, element for element.
C3_IdempotentInOrder ==
    pc = "reconsolidated" => reconsolidated = consolidated

\* C3 (amended): consolidating the output again returns the same globs,
\* each once; only their order may differ.
C3_IdempotentAsSet ==
    pc = "reconsolidated" =>
        /\ Range(reconsolidated) = Range(consolidated)
        /\ Len(reconsolidated) = Len(consolidated)
        /\ Cardinality(Range(consolidated)) = Len(consolidated)

\* a second consolidation of an output that the first one had merged
C3_Witness ==
    /\ pc = "reconsolidated"
    /\ Len(consolidated) >= 2
    /\ Range(consolidated) \ Range(paths) # {}

\* the input globs that no other input glob dominates
Survivors == {g \in Range(paths) : \A h \in Range(paths) : ~LiesUnder(g, h)}

\* the directories Vendor/<S> for the immediate subdirectories S of Vendor
VendorSubdirectories ==
    {Slash(Vendor, Split(d)[2]) : d \in {e \in Directories : LiesUnder(e, Vendor)}}

GroupMembers(subdirectory) == {g \in Survivors : Covers(subdirectory, g)}

Occurrences(list, x) == Cardinality({i \in 1..Len(list) : list[i] = x})

NothingToConsolidate ==
    /\ Cardinality(Range(paths)) = Len(paths)
    /\ \A g, h \in Range(paths) : ~LiesUnder(g, h)
    /\ \A subdirectory \in VendorSubdirectories :
           Cardinality(GroupMembers(subdirectory)) =< 1

Position(list, x) == CHOOSE i \in 1..Len(list) : list[i] = x

\* x comes before y in the order consolidatePaths produces: the paths
\* outside Vendor/ first, each part by ascending length, equal lengths in
\* the order of the input
ComesBefore(x, y) ==
    \/ ~StartsWith(x, Slash(Vendor, <<>>)) /\ StartsWith(y, Slash(Vendor, <<>>))
    \/ /\ StartsWith(x, Slash(Vendor, <<>>)) = StartsWith(y, Slash(Vendor, <<>>))
       /\ \/ Len(x) < Len(y)
          \/ Len(x) = Len(y) /\ Position(paths, x) < Position(paths, y)

ListedUnder(context, key) == Occurrences(runtimeMap[context], key)

RECURSIVE SumOver(_, _)
SumOver(contexts, key) ==
    IF contexts = <<>> THEN 0
    ELSE ListedUnder(Head(contexts), key) + SumOver(Tail(contexts), key)

\* how often the entry tree[key] is listed over all contexts
TimesListed(key) == SumOver(RuntimeContexts, key)

TopLevelKeys == {tree.children[i].key : i \in 1..Len(tree.children)}

\* C6: disjointness: after collectIntoRuntimeMap no entry is listed under
\* two runtime contexts, and none is listed more than once over all lists.
C6_Disjoint ==
    pc = "classified" => \A key \in TopLevelKeys : TimesListed(key) =< 1

\* the nodes below an entry, each with its depth below the root
RECURSIVE NodesBelow(_, _)
NodesBelow(entry, depth) ==
    UNION { {[key |-> entry.children[i].key, node |-> entry.children[i].entry, depth |-> depth]}
            \cup NodesBelow(entry.children[i].entry, depth + 1) :
            i \in 1..Len(entry.children) }

\* a list of the RuntimeEntryMap holds references to top-level entries
\* only: a nested node is listed nowhere
TimesNodeListed(n) == IF n.depth = 1 THEN TimesListed(n.key) ELSE 0

\* C7: coverage: after collectIntoRuntimeMap every node reachable from the
\* root that has a className or a path is listed exactly once.
C7_Coverage ==
    pc = "classified" =>
        \A n \in NodesBelow(tree, 1) :
            (n.node.className # Absent \/ n.node.path # Absent) => TimesNodeListed(n) = 1

\* the contexts whose configured names include the name
ConfiguredFor(name) ==
    { getRuntimeContextFromKey(configuration[i].context) : i \in
        {j \in 1..Len(configuration) : Includes(configuration[j].serviceNames, name)} }

\* C8: override precedence: after collectIntoRuntimeMap a top-level entry
\* whose className is configured for context A and has the metadata
\* context B # A is listed under A and not under B, whatever its key.
C8_ConfigurationWins ==
    pc = "classified" =>
        \A i \in 1..Len(tree.children) :
            LET key       == tree.children[i].key
                className == tree.children[i].entry.className
            IN  \A A \in ConfiguredFor(className) :
                    (/\ className \in RobloxServices
                     /\ ConfiguredFor(className) = {A}
                     /\ ConfiguredFor(key) \subseteq {A}
                     /\ ServiceRuntimeContext(className) # A)
                        => /\ ListedUnder(A, key) >= 1
                           /\ ListedUnder(ServiceRuntimeContext(className), key) = 0

\* C10: child override in the analyze pipeline: after
\* collectFromConfigurationAsync and collectPathsFromRuntimeMap the path
\* of a nested node whose className has the metadata context B is listed
\* under B, although its enclosing top-level entry is listed under A # B.
C10_ChildOverrides ==
    pc = "listed" =>
        \A i \in 1..Len(tree.children), A \in Range(RuntimeContexts) :
            ListedUnder(A, tree.children[i].key) >= 1 =>
                \A n \in NodesBelow(tree.children[i].entry, 2) :
                    (/\ n.node.className \in RobloxServices
                     /\ n.node.path # Absent
                     /\ ServiceRuntimeContext(n.node.className) # A)
                        => n.node.path \in Range(pathMap[ServiceRuntimeContext(n.node.className)])

\* the names the configuration lists, under whatever context
ConfiguredNames ==
    UNION {Range(configuration[i].serviceNames) : i \in 1..Len(configuration)}

\* C11: in collectIntoRuntimeMap a top-level entry that the configuration
\* does not match and whose className is present but names no known
\* service is listed under Unknown once and under no other context, and no
\* error is raised.
C11_UnknownListed ==
    pc \in {"classified", "threw"} =>
        \A i \in 1..Len(tree.children) :
            LET key       == tree.children[i].key
                className == tree.children[i].entry.className
            IN  (/\ key \notin ConfiguredNames
                 /\ className # Absent
                 /\ className \notin ConfiguredNames
                 /\ className \notin RobloxServices)
                    => /\ pc = "classified"
                       /\ ListedUnder("Unknown", key) = 1
                       /\ TimesListed(key) = 1

\* configuration.files with every list empty
EmptyConfiguration == \A i \in 1..Len(configuration) : configuration[i].serviceNames = <<>>

\* the context the service metadata gives a known service
MetadataContext(className) ==
    CASE className \in {ReplicatedFirst, StarterGui}          -> "Client"
      [] className \in {ServerScriptService, ServerStorage}   -> "Server"
      [] className \in {TestService}                          -> "Testing"
      [] OTHER                                                -> "Shared"

Malformed(child) == child.key \in ReservedKeys \/ child.entry.kind # "object"

\* the entry without its malformed children, at every depth
RECURSIVE Pruned(_)
RECURSIVE PrunedChildren(_)
PrunedChildren(children) ==
    IF children = <<>> THEN <<>>
    ELSE (IF Malformed(Head(children)) THEN <<>>
          ELSE <<[key |-> Head(children).key, entry |-> Pruned(Head(children).entry)]>>)
         \o PrunedChildren(Tail(children))

Pruned(entry) == [entry EXCEPT !.children = PrunedChildren(entry.children)]

\* every $path stored in a value or below it
RECURSIVE PathsWithin(_)
PathsWithin(entry) ==
    (IF entry.path # Absent THEN {entry.path} ELSE {})
    \cup UNION {PathsWithin(entry.children[i].entry) : i \in 1..Len(entry.children)}

\* the paths stored in or below the malformed children of an entry and of
\* its descendants
RECURSIVE MalformedPaths(_)
MalformedPaths(entry) ==
    UNION { IF Malformed(entry.children[i])
            THEN PathsWithin(entry.children[i].entry)
            ELSE MalformedPaths(entry.children[i].entry) :
            i \in 1..Len(entry.children) }

ListedPaths == UNION {Range(pathMap[context]) : context \in Range(RuntimeContexts)}

\* C14: malformed children are skipped silently: they are in no context
\* list, none of the paths stored only in them is listed, and
\* collectIntoRuntimeMap, the classification of the analyze pipeline and
\* the extraction of paths give what they give for the tree without those
\* children.
C14_MalformedSkipped ==
    /\ pc \in {"classified", "collected", "listed"} =>
           \A i \in 1..Len(tree.children) :
               Malformed(tree.children[i]) => TimesListed(tree.children[i].key) = 0
    /\ pc = "classified" =>
           LET result == collectIntoRuntimeMap(Pruned(tree), configuration)
           IN  ~result.threw /\ runtimeMap = result.map
    /\ pc = "threw" => collectIntoRuntimeMap(Pruned(tree), configuration).threw
    /\ pc = "collected" =>
           \E globstarMatchesSelf \in BOOLEAN :
               runtimeMap = collectFromConfiguration(Pruned(tree), configuration,
                                                     globstarMatchesSelf).map
    /\ pc = "listed" =>
           /\ pathMap = collectPathsFromRuntimeMap(Pruned(tree), runtimeMap)
           /\ ListedPaths \cap (MalformedPaths(tree) \ PathsWithin(Pruned(tree))) = {}

\* a run that listed the paths of an entry one of whose children is
\* malformed and holds a path
C14_Witness ==
    /\ pc = "listed"
    /\ \E i \in 1..Len(tree.children) :
           /\ TimesListed(tree.children[i].key) >= 1
           /\ tree.children[i].entry.path \in ListedPaths
           /\ MalformedPaths(tree.children[i].entry) # {}

\* the addresses of the nodes of a subtree: the positions of the children
\* taken from the entry down to the node, counting tree entries only
RECURSIVE Addresses(_)
Addresses(entry) ==
    {<<>>} \cup
    UNION { {<<i>> \o a : a \in Addresses(entry.children[i].entry)} :
            i \in {j \in 1..Len(entry.children) : ~Malformed(entry.children[j])} }

RECURSIVE NodeAt(_, _)
NodeAt(entry, address) ==
    IF address = <<>> THEN entry
    ELSE NodeAt(entry.children[Head(address)].entry, Tail(address))

\* a comes before b in pre-order: a node before its descendants, and the
\* subtree of an earlier child before the subtree of a later one
RECURSIVE Precedes(_, _)
Precedes(a, b) ==
    IF a = <<>> THEN b # <<>>
    ELSE /\ b # <<>>
         /\ \/ Head(a) < Head(b)
            \/ Head(a) = Head(b) /\ Precedes(Tail(a), Tail(b))

\* the paths of the nodes at the addresses, in pre-order
RECURSIVE InPreOrder(_, _)
InPreOrder(entry, addresses) ==
    IF addresses = {} THEN <<>>
    ELSE LET first == CHOOSE a \in addresses : \A b \in addresses \ {a} : Precedes(a, b)
         IN  <<NodeAt(entry, first).path>> \o InPreOrder(entry, addresses \ {first})

PreOrderPaths(entry) ==
    InPreOrder(entry, {a \in Addresses(entry) : NodeAt(entry, a).path # Absent})

RECURSIVE PreOrderPathsOf(_)
PreOrderPathsOf(keys) ==
    IF keys = <<>> THEN <<>>
    ELSE PreOrderPaths(Get(tree, Head(keys))) \o PreOrderPathsOf(Tail(keys))

C9_Inherits ==
    pc = "analyzed" =>
        \A i \in 1..Len(visits) :
            (/\ visits[i].depth >= 2
             /\ visits[i].className = Absent
             /\ visits[i].key \notin RobloxServices)
                => LET parent == visits[ParentIndex(visits, i)]
                   IN  /\ visits[i].runtimeContext = parent.runtimeContext
                       /\ visits[i].path # Absent =>
                              Includes(EmittedPaths(visits, PathsKey(parent.runtimeContext)),
                                       Glob(visits[i].path))

\* neither the node of call i nor any of its ancestors has a className or a
\* key that is in the service metadata
RECURSIVE Unmatched(_, _)
Unmatched(calls, i) ==
    /\ ~InRobloxServiceMeta(calls[i].className)
    /\ ~InRobloxServiceMeta(calls[i].key)
    /\ calls[i].depth > 1 => Unmatched(calls, ParentIndex(calls, i))

\* the calls of processEntry for a node with a path and no context
Undetermined ==
    {i \in 1..Len(visits) : visits[i].path # Absent /\ Unmatched(visits, i)}

\* C12 (as claimed): the globs of nodes for which analyzeRojoProject
\* determines no context are not placed in the shared list.
C12_UnknownApart ==
    pc = "analyzed" =>
        \A i \in Undetermined :
            /\ ~Includes(EmittedPaths(visits, "shared"), Glob(visits[i].path))
            /\ ~Includes(runtimePaths["shared"], Glob(visits[i].path))

\* C12 (amended): the glob of a node for which analyzeRojoProject
\* determines no context is pushed to the shared list, together with the
\* globs classified Shared by metadata, and to no other list; the returned
\* map holds it under no context other than shared.
C12_UnknownInShared ==
    pc = "analyzed" =>
        \A i \in Undetermined :
            /\ visits[i].runtimeContext = Undefined
            /\ Includes(EmittedPaths(visits, "shared"), Glob(visits[i].path))
            /\ \A key \in Range(PathsKeys) \ {"shared"} :
                   /\ ~Includes(EmittedPaths(visits, key), Glob(visits[i].path))
                   /\ ~Includes(runtimePaths[key], Glob(visits[i].path))

\* a run that returned the glob of an undetermined node and the glob of a
\* node classified Shared by metadata in the same list
C12_Witness ==
    /\ pc = "analyzed"
    /\ \E i \in Undetermined, j \in 1..Len(visits) :
           /\ visits[j].className = ReplicatedStorage
           /\ visits[j].path # Absent
           /\ Includes(runtimePaths["shared"], Glob(visits[i].path))
           /\ Includes(runtimePaths["shared"], Glob(visits[j].path))

(***************************************************************************)
(* Properties of createSimpleIgnoreFilter.                                 *)
(***************************************************************************)
\* the patterns the filter held when the call was made: add only appends
HeldAt(call) == SubSeq(filterPatterns, 1, call.size)

\* the pattern is D/** for a directory D
IsRecursivePattern(pattern) ==
    /\ Len(pattern) > Len(GlobSuffix)
    /\ SubSeq(pattern, Len(pattern) - Len(GlobSuffix) + 1, Len(pattern)) = GlobSuffix
    /\ ~Includes(StripGlobSuffix(pattern), "*")

\* the path lies below the directory, at any depth
LiesBelow(path, directory) ==
    StartsWith(path, directory \o <<"/">>) /\ Len(path) > Len(directory) + 1

\* the pattern has wildcards but neither a separator nor a **
IsSegmentPattern(pattern) ==
    /\ Includes(pattern, "*") \/ Includes(pattern, "?")
    /\ ~Includes(pattern, "/")
    /\ \A i \in 1..(Len(pattern) - 1) : ~(pattern[i] = "*" /\ pattern[i + 1] = "*")

\* C16: a pattern D/** ignores every path below D at any depth, and a
\* filter whose patterns have only the wildcards * and ? and no separator
\* ignores no path that contains a separator (while *.t ignores a.t).
C16_Wildcards ==
    \A k \in 1..Len(ignoresCalls) :
        LET call == ignoresCalls[k]
            held == HeldAt(call)
        IN  /\ \A i \in 1..Len(held) :
                  IsRecursivePattern(held[i])
                      /\ LiesBelow(call.path, StripGlobSuffix(held[i]))
                  => call.result
            /\ ( /\ held # <<>>
                 /\ \A i \in 1..Len(held) : IsSegmentPattern(held[i])
                 /\ Includes(call.path, "/") )
               => ~call.result
            /\ ( /\ \E i \in 1..Len(held) : held[i] = <<"*", ".", "t">>
                 /\ call.path = <<"a", ".", "t">> )
               => call.result

\* the first half of C16 alone: D/** ignores the paths below D
C16_RecursiveHalf ==
    \A k \in 1..Len(ignoresCalls) :
        \A i \in 1..Len(HeldAt(ignoresCalls[k])) :
            IsRecursivePattern(HeldAt(ignoresCalls[k])[i])
                /\ LiesBelow(ignoresCalls[k].path, StripGlobSuffix(HeldAt(ignoresCalls[k])[i]))
            => ignoresCalls[k].result

\* the second half of C16 alone: * and ? match no separator
C16_SegmentHalf ==
    \A k \in 1..Len(ignoresCalls) :
        ( /\ HeldAt(ignoresCalls[k]) # <<>>
          /\ \A i \in 1..Len(HeldAt(ignoresCalls[k])) : IsSegmentPattern(HeldAt(ignoresCalls[k])[i])
          /\ Includes(ignoresCalls[k].path, "/") )
        => ~ignoresCalls[k].result

\* the directory D of a pattern D/ (trailing slash, optional leading slash)
IsDirectoryPattern(pattern) == EndsWithSlash(StripLeadingSlashes(pattern))

DirectoryOf(pattern) ==
    SubSeq(StripLeadingSlashes(pattern), 1, Len(StripLeadingSlashes(pattern)) - 1)

\* the path is the directory or starts with the directory and a separator
IsOrStartsWith(path, directory) ==
    path = directory \/ StartsWith(path, directory \o <<"/">>)

IsRootedDirectory(directory) ==
    directory # <<>> /\ ~StartsWith(directory, <<".", ".", "/">>)

HasInvoked(i) == runs[i].stage \in {"analyzing", "writing", "done"}

\* the runs started by an event of the watcher
EventRuns == {i \in 1..Len(runs) : runs[i].event # 0}

\* the first half of C19: every event of the watcher starts a run
C19_EveryEventStartsARun == Cardinality(EventRuns) = fileEvents.seen

\* the second half of C19: a run started by an event analyzes the paths of
\* the project tree as it was at the event
C19_PathsOfTheTreeAtTheEvent ==
    \A i \in EventRuns :
        HasInvoked(i)
        => \E globstarMatchesSelf \in BOOLEAN :
               runs[i].paths = HandlerPaths(runs[i].project, configuration, ignoreFilter,
                                            globstarMatchesSelf)

\* C19: in watch mode every event of the watcher (add, change, unlink,
\* unlinkDir) starts a run that recomputes the whole pipeline, so that the
\* paths analyzed after the event are those of the project tree as it is
\* at the event.
C19_FullPipelinePerEvent ==
    C19_EveryEventStartsARun /\ C19_PathsOfTheTreeAtTheEvent

\* the runs that are executing
InFlight == {i \in 1..Len(runs) : runs[i].stage \in InFlightStages}

\* C20: an event that arrives while a run is in flight starts no run
\* alongside it: at most one run executes at any time.
C20_OneRunAtATime == Cardinality(InFlight) <= 1

\* the other half of C20: nothing removes a run, and the start of a run
\* leaves the runs in flight as they are
C20_NoRunCancelled ==
    [][ /\ Len(runs') >= Len(runs)
        /\ \A i \in 1..Len(runs) :
               /\ runs'[i].event = runs[i].event
               /\ Len(runs') > Len(runs) => runs'[i].stage = runs[i].stage ]_vars

(***************************************************************************)
(* Further properties of the consolidator.                                 *)
(***************************************************************************)
\* the input globs that lie under the directory
InputsUnder(directory) == {g \in Range(paths) : LiesUnder(g, directory)}

RECURSIVE TimesConfigured(_, _)
TimesConfigured(files, name) ==
    IF files = <<>> THEN 0
    ELSE Occurrences(Head(files).serviceNames, name) + TimesConfigured(Tail(files), name)

\* the top-level entry is claimed by a configuration match
IsClaimed(child) == child.key \in ConfiguredNames /\ ~Malformed(child)

\* C24: in collectIntoRuntimeMap, once a configuration match claims an
\* entry that has a className, the fallback pass adds no other top-level
\* entry of the same className to any list: such an entry is listed as
\* often as the configuration names its key, and in no list at all when the
\* configuration does not name it.
C24_SameClassSkipped ==
    pc = "classified" =>
        \A i, j \in 1..Len(tree.children) :
            ( /\ i # j
              /\ IsClaimed(tree.children[i])
              /\ tree.children[i].entry.className # Absent
              /\ ~Malformed(tree.children[j])
              /\ tree.children[j].entry.className = tree.children[i].entry.className )
            => TimesListed(tree.children[j].key)
                   = TimesConfigured(configuration, tree.children[j].key)

\* a run in which the configuration claimed one of two entries of the same
\* className and the other, which it does not name, is in no list
C24_Witness ==
    /\ pc = "classified"
    /\ \E i, j \in 1..Len(tree.children) :
           /\ i # j
           /\ IsClaimed(tree.children[i])
           /\ TimesListed(tree.children[i].key) >= 1
           /\ tree.children[j].entry.className = tree.children[i].entry.className
           /\ tree.children[j].entry.className \in RobloxServices
           /\ tree.children[j].key \notin ConfiguredNames
           /\ TimesListed(tree.children[j].key) = 0

\* the names the configuration lists under the key
RECURSIVE ConfiguredUnder(_, _)
ConfiguredUnder(files, key) ==
    IF files = <<>> THEN <<>>
    ELSE (IF Head(files).context = key THEN Head(files).serviceNames ELSE <<>>)
         \o ConfiguredUnder(Tail(files), key)

\* C30: the configuration pass of collectIntoRuntimeMap puts no entry into
\* Unknown: an entry claimed under the configuration key shared is listed
\* under Shared, once for each time the key names it, although the
\* metadata of Unknown names the key shared as well, and the Unknown list
\* holds only entries that the fallback pass put there.
C30_ConfigurationNeverUnknown ==
    pc = "classified" =>
        /\ ClassifyConfigured(tree, configuration, NoneClassified).map["Unknown"] = <<>>
        /\ \A i \in 1..Len(tree.children) :
               LET child == tree.children[i]
               IN  /\ IsClaimed(child) =>
                       /\ ListedUnder("Unknown", child.key) = 0
                       /\ ListedUnder("Shared", child.key)
                              = Occurrences(ConfiguredUnder(configuration, "shared"), child.key)
                   /\ ListedUnder("Unknown", child.key) >= 1 =>
                       /\ child.key \notin ConfiguredNames
                       /\ child.entry.className # Absent
                       /\ child.entry.className \notin RobloxServices

\* a run that listed an entry claimed under the key shared under Shared and
\* an unclaimed entry of an unknown className under Unknown
C30_Witness ==
    /\ pc = "classified"
    /\ \E i, j \in 1..Len(tree.children) :
           /\ Includes(ConfiguredUnder(configuration, "shared"), tree.children[i].key)
           /\ ListedUnder("Shared", tree.children[i].key) = 1
           /\ ListedUnder("Unknown", tree.children[j].key) = 1

(***************************************************************************)
(* C26: in analyzeRojoProject no glob of the final output covers a         *)
(* directory the ignore filter ignores: when isIgnoredPath holds for a     *)
(* glob extracted from the tree, no glob of any list of the result has    *)
(* that glob's base, or a directory above that base, as its own base.      *)
(***************************************************************************)
IgnoredDirectories ==
    { visits[i].path : i \in { j \in 1..Len(visits) :
          /\ visits[j].path # Absent
          /\ isIgnoredPath(Glob(visits[j].path), ignoreFilter.patterns) } }

OutputBases ==
    UNION { { Base(runtimePaths[key][i]) : i \in 1..Len(runtimePaths[key]) } :
            key \in Range(PathsKeys) }

C26_IgnoredNeverCovered ==
    (pc = "analyzed" /\ ignoreFilter.given) =>
        \A directory \in IgnoredDirectories :
            \A base \in OutputBases :
                /\ base # directory
                /\ ~StartsWith(directory, base \o <<"/">>)

(***************************************************************************)
(* Further properties of watch mode.                                       *)
(***************************************************************************)
\* the runs whose write of the problems file was rejected
FailedWrites == {i \in 1..Len(runs) : runs[i].stage = "failed" /\ runs[i].content # NoContent}

\* run i settles its analyses and leaves the problems file unwritten
SkipsWrite(i) == runs[i].stage = "analyzing" /\ runs'[i].stage = "done"

\* C29: a write of the problems file that failed is not remembered as done:
\* a run whose content is that of a run whose write failed, while the file
\* does not hold this content, does not skip its write.
C29_FailedWriteRepeated ==
    [][ \A i \in 1..Len(runs) :
            SkipsWrite(i)
            => \A j \in FailedWrites :
                   runs[j].content = runs'[i].content => problemsFile = runs'[i].content ]_vars

\* the run started last
LatestRun == Len(runs)

\* C28: in watch mode, whenever no run is in flight, the problems file holds
\* the formatted result of the run started last: an earlier run never
\* overwrites what a later run wrote.  Stated for the behaviours in which
\* every run has completed, none having failed.
C28_LatestRunWins ==
    (pc = "watching" /\ \A i \in 1..Len(runs) : runs[i].stage = "done")
        => problemsFile = runs[LatestRun].content

(***************************************************************************)
(* filterPathsWithIgnorePatterns (commands/analyze.ts:53-92) called with   *)
(* the paths of the contexts, the patterns of the .gitignore filter, the   *)
(* configured ignoreGlobs and a working directory.                         *)
(***************************************************************************)
\* workingDirectory.split("/").pop(), line 72
Popped(directory) == Split(directory)[Len(Split(directory))]

FilteredPaths == { <<"a">>, <<"w", "/", "a">>, <<"a", "/", "b">> }

FilteredPathLists == SeqsUpTo(FilteredPaths, MaxEntries)

FilterGitignores == { <<>>, <<<<"/", "a", "/">>>>, <<<<"b">>>> }

FilterIgnoreGlobs == { <<>>, <<<<"a", "/", "*">>>>, <<<<"w">>>> }

\* the root, a directory below it, and a directory named as a segment of
\* the paths is
WorkingDirectories == { <<"/">>, <<"/", "w">>, <<"/", "x", "/", "a">> }

FilterInit ==
    /\ pc = "collected"
    /\ filterCall \in
           { [paths |-> [Client |-> <<>>, Server |-> server, Shared |-> shared,
                         Testing |-> <<>>, Unknown |-> <<>>],
              gitignore |-> gitignore, ignoreGlobs |-> globs,
              workingDirectory |-> directory] :
             server \in FilteredPathLists, shared \in FilteredPathLists,
             gitignore \in FilterGitignores, globs \in FilterIgnoreGlobs,
             directory \in WorkingDirectories }
    /\ filtered = <<>>
    /\ paths = <<>>
    /\ consolidated = <<>>
    /\ reconsolidated = <<>>
    /\ tree = <<>>
    /\ configuration = <<>>
    /\ runtimeMap = <<>>
    /\ pathMap = <<>>
    /\ ignoreFilter = <<>>
    /\ visits = <<>>
    /\ runtimePaths = <<>>
    /\ filterPatterns = <<>>
    /\ ignoresCalls = <<>>
    /\ projectOnDisk = <<>>
    /\ sourcesOnDisk = <<>>
    /\ analysisOptions = <<>>
    /\ runs = <<>>
    /\ fileEvents = <<>>
    /\ problemsFile = <<>>
    /\ lastProblematicContent = <<>>
    /\ rawOutput = <<>>
    /\ issues = <<>>
    /\ subprocess = <<>>
    /\ analysisResult = <<>>
    /\ searchDirectory = <<>>
    /\ reads = <<>>
    /\ found = <<>>

FilterPathsWithIgnorePatterns ==
    /\ pc = "collected"
    /\ filtered' = filterPathsWithIgnorePatterns(filterCall.paths, filterCall.gitignore,
                                                 filterCall.ignoreGlobs,
                                                 Popped(filterCall.workingDirectory))
    /\ pc' = "filtered"
    /\ UNCHANGED <<paths, consolidated, reconsolidated, tree, configuration, runtimeMap,
                   pathMap, ignoreFilter, visits, runtimePaths, filterPatterns,
                   ignoresCalls, projectOnDisk, sourcesOnDisk, analysisOptions, runs,
                   fileEvents, problemsFile, lastProblematicContent, filterCall,
                   rawOutput, issues, subprocess, analysisResult, searchDirectory,
                   reads, found>>

FilterNext == FilterPathsWithIgnorePatterns

SpecFilter == FilterInit /\ [][FilterNext]_vars

(***************************************************************************)
(* Properties of filterPathsWithIgnorePatterns.                            *)
(***************************************************************************)
\* the path, taken relative to the working directory in its file or its
\* directory form, is ignored by the .gitignore filter or by the ignoreGlobs
IgnoredRelative(path) ==
    \/ isIgnoredPath(Relative(path), filterCall.gitignore)
    \/ isIgnoredPath(Relative(path), filterCall.ignoreGlobs)

RECURSIVE NotIgnored(_)
NotIgnored(list) ==
    IF list = <<>> THEN <<>>
    ELSE (IF IgnoredRelative(Head(list)) THEN <<>> ELSE <<Head(list)>>)
         \o NotIgnored(Tail(list))

\* the elements of short occur in long, in the same order
RECURSIVE IsSubsequence(_, _)
IsSubsequence(short, long) ==
    IF short = <<>> THEN TRUE
    ELSE IF long = <<>> THEN FALSE
    ELSE IF Head(short) = Head(long) THEN IsSubsequence(Tail(short), Tail(long))
    ELSE IsSubsequence(short, Tail(long))

\* C25: filterPathsWithIgnorePatterns removes a path from the list of a
\* context only if the path, relative to the working directory, is ignored
\* by the .gitignore filter or by the ignoreGlobs: every other path is kept,
\* in its order and in its context, whatever the working directory is.
C25_OnlyIgnoredRemoved ==
    pc = "filtered" =>
        \A context \in DOMAIN filterCall.paths :
            /\ IsSubsequence(filtered[context], filterCall.paths[context])
            /\ IsSubsequence(NotIgnored(filterCall.paths[context]), filtered[context])

(***************************************************************************)
(* LuauLspRunner.executeAnalysisAsync, core/luau-lsp-runner.ts:60-90, and  *)
(* buildCommandAsync, lines 107-145.  An argument of the command is a      *)
(* record of its flag and its value; a text of the process is a string.    *)
(***************************************************************************)
\* largest exit code of the analyzer process
MaxExitCode == 2

ExitCodes == 0..MaxExitCode

Argument(flag, value) == [flag |-> flag, value |-> value]

\* lines 115-122: the flag is pushed when the file exists
OptionalArgument(flag, file, existing) ==
    IF file \in existing THEN <<Argument(flag, file)>> ELSE <<>>

RECURSIVE IgnoreArguments(_)
IgnoreArguments(patterns) ==
    IF patterns = <<>> THEN <<>>
    ELSE <<Argument("--ignore", Head(patterns))>> \o IgnoreArguments(Tail(patterns))

RECURSIVE PathArguments(_)
PathArguments(list) ==
    IF list = <<>> THEN <<>>
    ELSE <<Argument("", Head(list))>> \o PathArguments(Tail(list))

\* lines 107-145: existing are the files found in cwd, matched the ignore
\* patterns that match a file
buildCommandAsync(options, existing, matched) ==
    << Argument("", "luau-lsp"), Argument("", "analyze"),
       Argument("--definitions", "globalTypes.d.luau"),
       Argument("--no-strict-dm-types", "") >>
        \o OptionalArgument("--settings", ".vscode/settings.json", existing)
        \o OptionalArgument("--sourcemap", "sourcemap.json", existing)
        \o OptionalArgument("--base-luaurc", ".luaurc", existing)
        \o IgnoreArguments(matched)
        \o PathArguments(options.paths)

\* a success whatever the exit code is
AlwaysSucceeds(exitCode) == TRUE

\* line 79
Success(exitCode) == exitCode = 0

\* String(error) of an Error with the message, line 85
StringOfError(message) == <<"Error: ", message>>

\* lines 75-80
Resolved(exitCode, stdout, stderr) ==
    [settled |-> "fulfilled", exitCode |-> exitCode, stdout |-> stdout, stderr |-> stderr,
     success |-> Success(exitCode)]

\* lines 81-89
Caught(message) ==
    [settled |-> "fulfilled", exitCode |-> -1, stdout |-> "",
     stderr |-> StringOfError(message), success |-> FALSE]

Pending == [settled |-> "pending"]
Rejected(message) == [settled |-> "rejected", error |-> message]

NotSpawned ==
    [command |-> <<>>, spawned |-> FALSE, thrown |-> "", exited |-> FALSE, exitCode |-> 0,
     stdout |-> "", stderr |-> ""]

ConfigurationFiles == {".vscode/settings.json", "sourcemap.json", ".luaurc"}
AnalysisPaths == { <<"src/">>, <<"src/client", "src/shared">> }
MatchedPatterns == { <<>>, <<"dist">> }
SpawnErrors == {"Command not found", "EACCES"}
StreamErrors == {"stream closed"}
Texts == {"", "Analysis complete", "Analysis failed"}

ExecuteInit ==
    /\ pc = "building"
    /\ analysisOptions \in { [paths |-> list, verbose |-> FALSE] : list \in AnalysisPaths }
    /\ subprocess = NotSpawned
    /\ analysisResult = Pending
    /\ paths = <<>>
    /\ consolidated = <<>>
    /\ reconsolidated = <<>>
    /\ tree = <<>>
    /\ configuration = <<>>
    /\ runtimeMap = <<>>
    /\ pathMap = <<>>
    /\ ignoreFilter = <<>>
    /\ visits = <<>>
    /\ runtimePaths = <<>>
    /\ filterPatterns = <<>>
    /\ ignoresCalls = <<>>
    /\ projectOnDisk = <<>>
    /\ sourcesOnDisk = <<>>
    /\ runs = <<>>
    /\ fileEvents = <<>>
    /\ problemsFile = <<>>
    /\ lastProblematicContent = <<>>
    /\ filterCall = <<>>
    /\ filtered = <<>>
    /\ rawOutput = <<>>
    /\ issues = <<>>
    /\ searchDirectory = <<>>
    /\ reads = <<>>
    /\ found = <<>>

\* line 61: the command is built, or reading the files of cwd rejects and
\* so does executeAnalysisAsync
BuildCommand ==
    /\ pc = "building"
    /\ \E built \in BOOLEAN, existing \in SUBSET ConfigurationFiles,
          matched \in MatchedPatterns :
         IF built
         THEN /\ subprocess' = [subprocess EXCEPT
                                    !.command = buildCommandAsync(analysisOptions, existing,
                                                                  matched)]
              /\ pc' = "spawning"
              /\ UNCHANGED analysisResult
         ELSE /\ analysisResult' = Rejected("EACCES")
              /\ pc' = "settled"
              /\ UNCHANGED subprocess
    /\ UNCHANGED <<paths, consolidated, reconsolidated, tree, configuration, runtimeMap,
                   pathMap, ignoreFilter, visits, runtimePaths, filterPatterns,
                   ignoresCalls, projectOnDisk, sourcesOnDisk, analysisOptions, runs,
                   fileEvents, problemsFile, lastProblematicContent, filterCall, filtered,
                   rawOutput, issues, searchDirectory, reads, found>>

\* lines 65-69 and 81-89: Bun.spawn returns the process or throws
Spawn ==
    /\ pc = "spawning"
    /\ \/ /\ subprocess' = [subprocess EXCEPT !.spawned = TRUE]
          /\ pc' = "exiting"
          /\ UNCHANGED analysisResult
       \/ \E message \in SpawnErrors :
            /\ subprocess' = [subprocess EXCEPT !.thrown = message]
            /\ analysisResult' = Caught(message)
            /\ pc' = "settled"
    /\ UNCHANGED <<paths, consolidated, reconsolidated, tree, configuration, runtimeMap,
                   pathMap, ignoreFilter, visits, runtimePaths, filterPatterns,
                   ignoresCalls, projectOnDisk, sourcesOnDisk, analysisOptions, runs,
                   fileEvents, problemsFile, lastProblematicContent, filterCall, filtered,
                   rawOutput, issues, searchDirectory, reads, found>>

\* line 71: the process exits
Exited ==
    /\ pc = "exiting"
    /\ \E exitCode \in ExitCodes :
         subprocess' = [subprocess EXCEPT !.exited = TRUE, !.exitCode = exitCode]
    /\ pc' = "readingStdout"
    /\ UNCHANGED <<paths, consolidated, reconsolidated, tree, configuration, runtimeMap,
                   pathMap, ignoreFilter, visits, runtimePaths, filterPatterns,
                   ignoresCalls, projectOnDisk, sourcesOnDisk, analysisOptions, runs,
                   fileEvents, problemsFile, lastProblematicContent, filterCall, filtered,
                   analysisResult,
                   rawOutput, issues, searchDirectory, reads, found>>

\* line 72: the text of stdout is read, or the stream fails (lines 81-89)
ReadStdout ==
    /\ pc = "readingStdout"
    /\ \/ \E text \in Texts :
            /\ subprocess' = [subprocess EXCEPT !.stdout = text]
            /\ pc' = "readingStderr"
            /\ UNCHANGED analysisResult
       \/ \E message \in StreamErrors :
            /\ analysisResult' = Caught(message)
            /\ pc' = "settled"
            /\ UNCHANGED subprocess
    /\ UNCHANGED <<paths, consolidated, reconsolidated, tree, configuration, runtimeMap,
                   pathMap, ignoreFilter, visits, runtimePaths, filterPatterns,
                   ignoresCalls, projectOnDisk, sourcesOnDisk, analysisOptions, runs,
                   fileEvents, problemsFile, lastProblematicContent, filterCall, filtered,
                   rawOutput, issues, searchDirectory, reads, found>>

\* lines 73-80: the text of stderr is read and the result returned, or the
\* stream fails (lines 81-89)
ReadStderr ==
    /\ pc = "readingStderr"
    /\ \/ \E text \in Texts :
            /\ subprocess' = [subprocess EXCEPT !.stderr = text]
            /\ analysisResult' = Resolved(subprocess.exitCode, subprocess.stdout, text)
       \/ \E message \in StreamErrors :
            /\ analysisResult' = Caught(message)
            /\ UNCHANGED subprocess
    /\ pc' = "settled"
    /\ UNCHANGED <<paths, consolidated, reconsolidated, tree, configuration, runtimeMap,
                   pathMap, ignoreFilter, visits, runtimePaths, filterPatterns,
                   ignoresCalls, projectOnDisk, sourcesOnDisk, analysisOptions, runs,
                   fileEvents, problemsFile, lastProblematicContent, filterCall, filtered,
                   rawOutput, issues, searchDirectory, reads, found>>

ExecuteNext ==
    \/ BuildCommand
    \/ Spawn
    \/ Exited
    \/ ReadStdout
    \/ ReadStderr

SpecExecute == ExecuteInit /\ [][ExecuteNext]_vars

(***************************************************************************)
(* Properties of executeAnalysisAsync.                                     *)
(***************************************************************************)
\* C22: executeAnalysisAsync always reports success = (exitCode = 0), and
\* when Bun.spawn throws it does not reject: it returns exitCode -1, success
\* false, an empty stdout and the text of the error in stderr.
C22_SuccessIsExitCodeZero ==
    /\ analysisResult.settled = "fulfilled"
           => /\ analysisResult.success = (analysisResult.exitCode = 0)
              /\ subprocess.exited /\ subprocess.thrown = ""
                     => \/ analysisResult.exitCode = subprocess.exitCode
                        \/ analysisResult.exitCode = -1
    /\ (pc = "settled" /\ subprocess.thrown # "")
           => /\ analysisResult.settled = "fulfilled"
              /\ analysisResult.exitCode = -1
              /\ analysisResult.success = FALSE
              /\ analysisResult.stdout = ""
              /\ analysisResult.stderr[Len(analysisResult.stderr)] = subprocess.thrown

C22_Witness ==
    /\ pc = "settled"
    /\ subprocess.thrown = "Command not found"
    /\ analysisResult.settled = "fulfilled"

(***************************************************************************)
(* getFirstConfigurationAsync, unnamed/part_009:487-569.  A file of the    *)
(* directory is a record of its name and of what its text is: a valid      *)
(* configuration, a text its parser rejects, or a parsed value the schema  *)
(* rejects.  The configuration read from a valid file is named after it.   *)
(***************************************************************************)
\* most files of the directory searched
MaxFiles == 3

\* fileName.lastIndexOf("."), shifted by one: 0 when there is none
LastIndexOfDot(fileName) ==
    IF \E i \in 1..Len(fileName) : fileName[i] = "."
    THEN CHOOSE i \in 1..Len(fileName) :
             fileName[i] = "." /\ \A j \in (i + 1)..Len(fileName) : fileName[j] # "."
    ELSE 0

\* lines 487-490
splitNameExtension(fileName) ==
    LET index == LastIndexOfDot(fileName)
    IN  IF index = 0 THEN [name |-> fileName, extension |-> <<>>]
        ELSE [name |-> SubSeq(fileName, 1, index - 1),
              extension |-> SubSeq(fileName, index + 1, Len(fileName))]

\* lines 461-462
PRIORITY_NAMES == << <<".", "p", "e", "n", "d", "a", "n", "t">>, <<"p", "e", "n", "d", "a", "n", "t">> >>
PRIORITY_EXTENSIONS == << <<"j", "s", "o", "n">>, <<"y", "a", "m", "l">>, <<"y", "m", "l">>, <<"t", "o", "m", "l">> >>

\* lines 464-469, from the metadata of meta/configuration-file-type-meta.ts
ALL_EXTENSIONS ==
    { <<"c", "f", "g">>, <<"c", "n", "f">>, <<"c", "o", "n", "f">>, <<"i", "n", "f">>, <<"i", "n", "i">>, <<"j", "s", "o", "n">>, <<"j", "s", "o", "n", "5">>, <<"j", "s", "o", "n", "c">>,
      <<"t", "o", "m", "l">>, <<"y", "a", "m", "l">>, <<"y", "m", "l">> }

\* lines 470-480
ALL_NAMES ==
    { <<".", "p", "e", "n", "d", "a", "n", "t", "-", "c", "o", "n", "f", "i", "g">>, <<".", "p", "e", "n", "d", "a", "n", "t", "-", "c", "o", "n", "f", "i", "g", "u", "r", "a", "t", "i", "o", "n">>, <<".", "p", "e", "n", "d", "a", "n", "t", ".", "c", "o", "n", "f", "i", "g">>,
      <<".", "p", "e", "n", "d", "a", "n", "t", ".", "c", "o", "n", "f", "i", "g", "u", "r", "a", "t", "i", "o", "n">>, <<"p", "e", "n", "d", "a", "n", "t", "-", "c", "o", "n", "f", "i", "g">>, <<"p", "e", "n", "d", "a", "n", "t", "-", "c", "o", "n", "f", "i", "g", "u", "r", "a", "t", "i", "o", "n">>,
      <<"p", "e", "n", "d", "a", "n", "t", ".", "c", "o", "n", "f", "i", "g">>, <<"p", "e", "n", "d", "a", "n", "t", ".", "c", "o", "n", "f", "i", "g", "u", "r", "a", "t", "i", "o", "n">>, <<".", "p", "e", "n", "d", "a", "n", "t">>, <<"p", "e", "n", "d", "a", "n", "t">> }

\* lines 492-503; IndexOf is 0 where indexOf is -1 and one more elsewhere
rank(fileName) ==
    LET parts == splitNameExtension(fileName)
        nameIndex == IndexOf(PRIORITY_NAMES, parts.name)
        extensionIndex == IndexOf(PRIORITY_EXTENSIONS, parts.extension)
        nameScore == IF nameIndex # 0 THEN (10 - (nameIndex - 1)) * 1000 ELSE 0
        extensionScore == IF extensionIndex # 0 THEN 10 - (extensionIndex - 1) ELSE 0
    IN  0 - (nameScore + extensionScore)

\* lines 505-508
isCandidateName(fileName) ==
    LET parts == splitNameExtension(fileName)
    IN  parts.name \in ALL_NAMES /\ parts.extension \in ALL_EXTENSIONS

\* the file placed behind the files of the sorted list that do not rank
\* after it
InsertCandidate(file, sorted) ==
    LET ahead == {i \in 1..Len(sorted) : rank(sorted[i].fileName) - rank(file.fileName) <= 0}
        last  == IF ahead = {} THEN 0 ELSE CHOOSE i \in ahead : \A j \in ahead : j <= i
    IN  SubSeq(sorted, 1, last) \o <<file>> \o SubSeq(sorted, last + 1, Len(sorted))

\* Array.prototype.sort with sortCandidates (lines 509-511 and 542): a
\* stable sort by rank
RECURSIVE SortCandidates(_, _)
SortCandidates(files, sorted) ==
    IF files = <<>> THEN sorted
    ELSE SortCandidates(Tail(files), InsertCandidate(Head(files), sorted))

\* line 542
Candidates(files) ==
    SortCandidates(SelectSeq(files, LAMBDA file : isCandidateName(file.fileName)), <<>>)

NoConfiguration == <<>>

\* the callback of candidates.map, lines 543-563: the configuration, or
\* undefined when the parser throws or the schema rejects the parsed value
ReadOf(file) ==
    IF file.content = "valid"
    THEN [settled |-> TRUE, defined |-> TRUE, configuration |-> file.fileName]
    ELSE [settled |-> TRUE, defined |-> FALSE, configuration |-> NoConfiguration]

Unsettled == [settled |-> FALSE, defined |-> FALSE, configuration |-> NoConfiguration]

Fulfilled(value) == [settled |-> "fulfilled", configuration |-> value]

\* the first result that is defined, in the order the reads settled
FirstSettled(results, completion) ==
    LET defined == {k \in 1..Len(completion) : results[completion[k]].defined}
    IN  IF defined = {} THEN Rejected("No pendant configuration file found")
        ELSE Fulfilled(results[completion[CHOOSE k \in defined :
                                              \A l \in defined : k <= l]].configuration)

\* lines 565-568: Promise.all keeps the results in the order of the
\* candidates, whatever the order the reads settled in
FirstDefined(results, completion) ==
    LET defined == {i \in 1..Len(results) : results[i].defined}
    IN  IF defined = {} THEN Rejected("No pendant configuration file found")
        ELSE Fulfilled(results[CHOOSE i \in defined : \A j \in defined : i <= j].configuration)

ConfigurationFileNames ==
    { <<".", "p", "e", "n", "d", "a", "n", "t", ".", "j", "s", "o", "n">>, <<"p", "e", "n", "d", "a", "n", "t", ".", "j", "s", "o", "n">>, <<"p", "e", "n", "d", "a", "n", "t", ".", "t", "o", "m", "l">>, <<"p", "e", "n", "d", "a", "n", "t", ".", "c", "o", "n", "f", "i", "g", ".", "j", "s", "o", "n">>,
      <<"R", "E", "A", "D", "M", "E", ".", "m", "d">> }

FileContents == {"valid", "invalidSyntax", "invalidSchema"}

\* the listings of readdir: distinct names, in any order
Listings ==
    { files \in SeqsUpTo([fileName : ConfigurationFileNames, content : FileContents],
                         MaxFiles) :
        \A i, j \in 1..Len(files) : i # j => files[i].fileName # files[j].fileName }

ConfigurationInit ==
    /\ pc = "searching"
    /\ searchDirectory \in [accessible : BOOLEAN, files : Listings]
    /\ reads = [candidates |-> <<>>, results |-> <<>>, completion |-> <<>>]
    /\ found = Pending
    /\ paths = <<>>
    /\ consolidated = <<>>
    /\ reconsolidated = <<>>
    /\ tree = <<>>
    /\ configuration = <<>>
    /\ runtimeMap = <<>>
    /\ pathMap = <<>>
    /\ ignoreFilter = <<>>
    /\ visits = <<>>
    /\ runtimePaths = <<>>
    /\ filterPatterns = <<>>
    /\ ignoresCalls = <<>>
    /\ projectOnDisk = <<>>
    /\ sourcesOnDisk = <<>>
    /\ analysisOptions = <<>>
    /\ runs = <<>>
    /\ fileEvents = <<>>
    /\ problemsFile = <<>>
    /\ lastProblematicContent = <<>>
    /\ filterCall = <<>>
    /\ filtered = <<>>
    /\ rawOutput = <<>>
    /\ issues = <<>>
    /\ subprocess = <<>>
    /\ analysisResult = <<>>

\* lines 535-543: readdir rejects and the call throws, or the candidates
\* are sorted and all their reads started
ReadDirectory ==
    /\ pc = "searching"
    /\ IF searchDirectory.accessible
       THEN LET candidates == Candidates(searchDirectory.files)
            IN  /\ reads' = [candidates |-> candidates,
                             results |-> [i \in 1..Len(candidates) |-> Unsettled],
                             completion |-> <<>>]
                /\ pc' = "reading"
                /\ UNCHANGED found
       ELSE /\ found' = Rejected("Directory not accessible")
            /\ pc' = "settled"
            /\ UNCHANGED reads
    /\ UNCHANGED <<paths, consolidated, reconsolidated, tree, configuration, runtimeMap,
                   pathMap, ignoreFilter, visits, runtimePaths, filterPatterns,
                   ignoresCalls, projectOnDisk, sourcesOnDisk, analysisOptions, runs,
                   fileEvents, problemsFile, lastProblematicContent, filterCall, filtered,
                   rawOutput, issues, subprocess, analysisResult, searchDirectory>>

\* lines 549-562: the read of one candidate settles, in any order
ReadSettles ==
    /\ pc = "reading"
    /\ \E i \in 1..Len(reads.results) :
         /\ ~reads.results[i].settled
         /\ reads' = [reads EXCEPT !.results[i] = ReadOf(reads.candidates[i]),
                                   !.completion = Append(@, i)]
    /\ UNCHANGED <<pc, paths, consolidated, reconsolidated, tree, configuration, runtimeMap,
                   pathMap, ignoreFilter, visits, runtimePaths, filterPatterns,
                   ignoresCalls, projectOnDisk, sourcesOnDisk, analysisOptions, runs,
                   fileEvents, problemsFile, lastProblematicContent, filterCall, filtered,
                   rawOutput, issues, subprocess, analysisResult, searchDirectory, found>>

\* lines 565-568: all reads have settled
AllSettled ==
    /\ pc = "reading"
    /\ \A i \in 1..Len(reads.results) : reads.results[i].settled
    /\ found' = FirstDefined(reads.results, reads.completion)
    /\ pc' = "settled"
    /\ UNCHANGED <<paths, consolidated, reconsolidated, tree, configuration, runtimeMap,
                   pathMap, ignoreFilter, visits, runtimePaths, filterPatterns,
                   ignoresCalls, projectOnDisk, sourcesOnDisk, analysisOptions, runs,
                   fileEvents, problemsFile, lastProblematicContent, filterCall, filtered,
                   rawOutput, issues, subprocess, analysisResult, searchDirectory, reads>>

ConfigurationNext ==
    \/ ReadDirectory
    \/ ReadSettles
    \/ AllSettled

SpecConfiguration == ConfigurationInit /\ [][ConfigurationNext]_vars

(***************************************************************************)
(* Properties of getFirstConfigurationAsync.                               *)
(***************************************************************************)
\* the files of the directory that are candidates and hold a valid
\* configuration
ValidCandidates ==
    {i \in 1..Len(searchDirectory.files) :
        /\ isCandidateName(searchDirectory.files[i].fileName)
        /\ searchDirectory.files[i].content = "valid"}

\* .pendant before pendant before the other names
NameClass(fileName) ==
    LET name == splitNameExtension(fileName).name
    IN  IF name = <<".", "p", "e", "n", "d", "a", "n", "t">> THEN 2 ELSE IF name = <<"p", "e", "n", "d", "a", "n", "t">> THEN 1 ELSE 0

\* C23: getFirstConfigurationAsync returns the configuration of a valid
\* candidate that no valid candidate precedes in priority (.pendant before
\* pendant before the other names), whatever the order in which the reads
\* settle; invalid candidates are skipped, and the call throws only when no
\* candidate is valid.
C23_HighestPriorityValid ==
    (pc = "settled" /\ searchDirectory.accessible) =>
        IF ValidCandidates = {}
        THEN found.settled = "rejected"
        ELSE /\ found.settled = "fulfilled"
             /\ \E i \in ValidCandidates :
                    /\ found.configuration = searchDirectory.files[i].fileName
                    /\ \A j \in ValidCandidates :
                           NameClass(searchDirectory.files[j].fileName)
                               <= NameClass(searchDirectory.files[i].fileName)

\* a valid pendant.json is read before a valid .pendant.json, which is
\* returned, and an invalid candidate is skipped
C23_Witness ==
    /\ pc = "settled"
    /\ found.settled = "fulfilled"
    /\ found.configuration = <<".", "p", "e", "n", "d", "a", "n", "t", ".", "j", "s", "o", "n">>
    /\ Len(reads.completion) >= 2
    /\ reads.results[reads.completion[1]].configuration = <<"p", "e", "n", "d", "a", "n", "t", ".", "j", "s", "o", "n">>

(***************************************************************************)
(* parseLuauLspOutput, core/output-formatter.ts:72-133.                    *)
(***************************************************************************)
\* most lines of the output of the analyzer
MaxLines == 3

Digits == <<"0", "1", "2", "3", "4", "5", "6", "7", "8", "9">>

\* the index behind the run of characters of the class that starts at i
RunEnd(s, i, class) ==
    CHOOSE j \in i..(Len(s) + 1) :
        /\ j = Len(s) + 1 \/ s[j] \notin class
        /\ \A m \in i..(j - 1) : s[m] \in class

\* \((\d+),(\d+)\):\s+(.+)$ matched from the parenthesis at index open
RestMatches(line, open) ==
    LET comma == RunEnd(line, open + 1, Range(Digits))
    IN  /\ comma > open + 1
        /\ comma <= Len(line)
        /\ line[comma] = ","
        /\ LET close == RunEnd(line, comma + 1, Range(Digits))
           IN  /\ close > comma + 1
               /\ close + 1 <= Len(line)
               /\ line[close] = ")"
               /\ line[close + 1] = ":"
               /\ LET text == RunEnd(line, close + 2, {" ", "\t", "\r", "\n"})
                  IN  text > close + 2 /\ text <= Len(line)

\* Number.parseInt(digits, 10)
RECURSIVE ParseInt(_)
ParseInt(digits) ==
    IF digits = <<>> THEN 0
    ELSE 10 * ParseInt(SubSeq(digits, 1, Len(digits) - 1))
             + (IndexOf(Digits, digits[Len(digits)]) - 1)

NoMatch == [matched |-> FALSE, rawPath |-> <<>>, lineString |-> <<>>,
            columnString |-> <<>>, message |-> <<>>]

\* line.match(FILE_PATH_REGEX), line 72: the path is the shortest prefix
\* that the rest of the pattern follows
Match(line) ==
    LET opens == {k \in 2..Len(line) : line[k] = "(" /\ RestMatches(line, k)}
    IN  IF opens = {} THEN NoMatch
        ELSE LET open  == CHOOSE k \in opens : \A l \in opens : k <= l
                 comma == RunEnd(line, open + 1, Range(Digits))
                 close == RunEnd(line, comma + 1, Range(Digits))
                 text  == RunEnd(line, close + 2, {" ", "\t", "\r", "\n"})
             IN  [matched |-> TRUE,
                  rawPath |-> SubSeq(line, 1, open - 1),
                  lineString |-> SubSeq(line, open + 1, comma - 1),
                  columnString |-> SubSeq(line, comma + 1, close - 1),
                  message |-> SubSeq(line, text, Len(line))]

\* rawPath.replace(DOUBLE_SLASH_REGEX, "/"), line 101
RECURSIVE CollapseSlashes(_)
CollapseSlashes(s) ==
    IF Len(s) < 2 THEN s
    ELSE IF s[1] = "/" /\ s[2] = "/" THEN CollapseSlashes(Tail(s))
    ELSE <<s[1]>> \o CollapseSlashes(Tail(s))

UpperCase == <<"A", "B", "C", "D", "E", "F", "G", "H", "I", "J", "K", "L", "M", "N", "O",
               "P", "Q", "R", "S", "T", "U", "V", "W", "X", "Y", "Z">>
LowerCase == <<"a", "b", "c", "d", "e", "f", "g", "h", "i", "j", "k", "l", "m", "n", "o",
               "p", "q", "r", "s", "t", "u", "v", "w", "x", "y", "z">>

toLowerCase(s) ==
    [i \in 1..Len(s) |-> IF IndexOf(UpperCase, s[i]) # 0
                         THEN LowerCase[IndexOf(UpperCase, s[i])] ELSE s[i]]

\* String.prototype.includes
IncludesText(s, part) ==
    \E i \in 1..(Len(s) - Len(part) + 1) : SubSeq(s, i, i + Len(part) - 1) = part

\* line 124
Severity(message) ==
    IF IncludesText(toLowerCase(message), <<"e", "r", "r", "o", "r">>) THEN "error" ELSE "warning"

\* lines[index]?.trim(), lines 93 and 107
TrimLine(line) == TrimEnd(TrimStart(line))

\* the loop of lines 106-117: empty lines are passed over, a matching line
\* ends the loop, any other line is appended to the message
RECURSIVE Continuation(_, _, _)
Continuation(lines, nextIndex, fullMessage) ==
    IF nextIndex > Len(lines) THEN [nextIndex |-> nextIndex, fullMessage |-> fullMessage]
    ELSE LET nextLine == TrimLine(lines[nextIndex])
         IN  IF nextLine = <<>> THEN Continuation(lines, nextIndex + 1, fullMessage)
             ELSE IF Match(nextLine).matched
             THEN [nextIndex |-> nextIndex, fullMessage |-> fullMessage]
             ELSE Continuation(lines, nextIndex + 1, fullMessage \o <<"\n">> \o nextLine)

\* the loop of lines 92-130
RECURSIVE ParseFrom(_, _)
ParseFrom(lines, index) ==
    IF index > Len(lines) THEN <<>>
    ELSE LET line  == TrimLine(lines[index])
             match == Match(line)
         IN  IF line = <<>> \/ ~match.matched THEN ParseFrom(lines, index + 1)
             ELSE LET rest == Continuation(lines, index + 1, match.message)
                  IN  << [column |-> ParseInt(match.columnString),
                          filePath |-> StripLeadingSlashes(CollapseSlashes(match.rawPath)),
                          line |-> ParseInt(match.lineString),
                          message |-> rest.fullMessage,
                          severity |-> Severity(match.message)] >>
                      \o ParseFrom(lines, rest.nextIndex)

\* lines 87-133
parseLuauLspOutput(output) == ParseFrom(SplitLines(output), 1)

\* lines of the analyzer: two issues, a line of context, an empty line and
\* an indented line of text
OutputLines ==
    { <<"p", "(", "1", ",", "2", ")", ":", " ", "T", "y", "p", "e", "E", "r", "r", "o", "r">>, <<"/", "q", "/", "/", "r", "(", "1", "0", ",", "4", ")", ":", " ", " ", "w">>, <<"c", "a", "u", "s", "e", "d", " ", "b", "y">>, <<>>, <<" ", "x", " ">> }

RECURSIVE JoinLines(_)
JoinLines(lines) ==
    IF lines = <<>> THEN <<>>
    ELSE IF Len(lines) = 1 THEN Head(lines)
    ELSE Head(lines) \o <<"\n">> \o JoinLines(Tail(lines))

Outputs == { JoinLines(lines) : lines \in SeqsUpTo(OutputLines, MaxLines) \ {<<>>} }

ParseInit ==
    /\ pc = "analyzed"
    /\ rawOutput \in Outputs
    /\ issues = <<>>
    /\ paths = <<>>
    /\ consolidated = <<>>
    /\ reconsolidated = <<>>
    /\ tree = <<>>
    /\ configuration = <<>>
    /\ runtimeMap = <<>>
    /\ pathMap = <<>>
    /\ ignoreFilter = <<>>
    /\ visits = <<>>
    /\ runtimePaths = <<>>
    /\ filterPatterns = <<>>
    /\ ignoresCalls = <<>>
    /\ projectOnDisk = <<>>
    /\ sourcesOnDisk = <<>>
    /\ analysisOptions = <<>>
    /\ runs = <<>>
    /\ fileEvents = <<>>
    /\ problemsFile = <<>>
    /\ lastProblematicContent = <<>>
    /\ filterCall = <<>>
    /\ filtered = <<>>
    /\ subprocess = <<>>
    /\ analysisResult = <<>>
    /\ searchDirectory = <<>>
    /\ reads = <<>>
    /\ found = <<>>

ParseLuauLspOutput ==
    /\ pc = "analyzed"
    /\ issues' = parseLuauLspOutput(rawOutput)
    /\ pc' = "parsed"
    /\ UNCHANGED <<paths, consolidated, reconsolidated, tree, configuration, runtimeMap,
                   pathMap, ignoreFilter, visits, runtimePaths, filterPatterns,
                   ignoresCalls, projectOnDisk, sourcesOnDisk, analysisOptions, runs,
                   fileEvents, problemsFile, lastProblematicContent, filterCall, filtered,
                   rawOutput, subprocess, analysisResult, searchDirectory, reads, found>>

ParseNext == ParseLuauLspOutput

SpecParse == ParseInit /\ [][ParseNext]_vars

(***************************************************************************)
(* Properties of parseLuauLspOutput.                                       *)
(***************************************************************************)
\* the lines of the output, trimmed
OutputLinesTrimmed ==
    [i \in 1..Len(SplitLines(rawOutput)) |-> TrimLine(SplitLines(rawOutput)[i])]

IsIssueLine(i) == Match(OutputLinesTrimmed[i]).matched

IssueLines == {i \in 1..Len(OutputLinesTrimmed) : IsIssueLine(i)}

\* the k-th issue line
RECURSIVE NthIssueLine(_)
NthIssueLine(k) ==
    IF k = 1 THEN CHOOSE i \in IssueLines : \A j \in IssueLines : i <= j
    ELSE CHOOSE i \in IssueLines :
             /\ i > NthIssueLine(k - 1)
             /\ \A j \in IssueLines : j > NthIssueLine(k - 1) => i <= j

\* the lines that follow issue line i with neither an issue line nor an
\* empty line before them
FollowingLines(i) ==
    {j \in (i + 1)..Len(OutputLinesTrimmed) :
        \A m \in (i + 1)..j : ~IsIssueLine(m) /\ OutputLinesTrimmed[m] # <<>>}

RECURSIVE WithLines(_, _, _)
WithLines(message, from, last) ==
    IF from > last THEN message
    ELSE WithLines(message \o <<"\n">> \o OutputLinesTrimmed[from], from + 1, last)

\* the message of issue line i with its continuation lines appended
ExpectedMessage(i) ==
    WithLines(Match(OutputLinesTrimmed[i]).message, i + 1, i + Cardinality(FollowingLines(i)))

\* C21: parseLuauLspOutput produces one issue per line matching
\* path(line,col): message, and the lines appended to the message of an
\* issue are exactly the non-matching lines that follow it before the next
\* matching line or the next run of blank lines: a non-matching line that
\* comes after a blank line is not appended.
C21_ContinuationEndsAtBlank ==
    pc = "parsed" =>
        /\ Len(issues) = Cardinality(IssueLines)
        /\ \A k \in 1..Len(issues) : issues[k].message = ExpectedMessage(NthIssueLine(k))

\* the first half of C21: one issue per matching line, in order
C21_OneIssuePerMatch ==
    pc = "parsed" =>
        /\ Len(issues) = Cardinality(IssueLines)
        /\ \A k \in 1..Len(issues) :
               LET match == Match(OutputLinesTrimmed[NthIssueLine(k)])
               IN  /\ StartsWith(issues[k].message, match.message)
                   /\ issues[k].line = ParseInt(match.lineString)

====
